---- MODULE Spec2Model ----
(***************************************************************************)
(* Model of the cookie reader of mcp-atlassian                             *)
(* (consolidated/core/advanced_cookie_reader.py, class CookieJSONReader):  *)
(* format detection and the six format-specific extractors, computed as    *)
(* the Python code computes them over parsed JSON documents; and of the    *)
(* session bootstrap, tool dispatch and JSON-RPC handlers built on it      *)
(* (consolidated/mcp_atlassian_extended.py,                                *)
(* consolidated/core/convention_based_manager.py,                          *)
(* consolidated/core/cookie_enhanced_server.py,                            *)
(* src/mcp_atlassian/jira/client.py).                                      *)
(*                                                                         *)
(* A parsed JSON value is a tagged record [t, v]:                          *)
(*   null  [t |-> "null"]            (Python None)                         *)
(*   bool  [t |-> "bool", v |-> b]                                         *)
(*   num   [t |-> "num",  v |-> n]                                         *)
(*   str   [t |-> "str",  v |-> <<c1, ..., cn>>]  (one character each)     *)
(*   arr   [t |-> "arr",  v |-> <<x1, ..., xn>>]  (Python list)            *)
(*   obj   [t |-> "obj",  v |-> << <<k1, x1>>, ... >>]  (Python dict, in   *)
(*         insertion order; keys are JSON values, strings in a document)   *)
(***************************************************************************)
EXTENDS Integers, Sequences, FiniteSets, TLC

VARIABLES
    data,          \* CookieJSONReader.data: the parsed document (None before a read)
    format_type,   \* CookieJSONReader.format_type
    pc,            \* position of the caller: "constructed", "loaded", "failed"
    ret,           \* outcome of the last call on the reader
    file_path,     \* CookieJSONReader.file_path
    output_file,   \* what save_as_cookie_manager_format last wrote, NoFile before
    manager,       \* the ExtendedJiraManager of the extended server
    initialized,   \* ExtendedMCPServer.initialized
    simple,        \* the SimpleMCPServer: its initialized flag and its manager
    out            \* outcome of the last call on a manager, a client or a server

\* the reader and its files
rvars == <<data, format_type, pc, ret, file_path, output_file>>
\* the managers and the servers
mvars == <<manager, initialized, simple, out>>
vars == <<data, format_type, pc, ret, file_path, output_file,
          manager, initialized, simple, out>>

----------------------------------------------------------------------------
(* JSON values                                                             *)

JNull == [t |-> "null"]
JBool(b) == [t |-> "bool", v |-> b]
JNum(n) == [t |-> "num", v |-> n]
JStr(s) == [t |-> "str", v |-> s]
JArr(a) == [t |-> "arr", v |-> a]
JObj(o) == [t |-> "obj", v |-> o]

\* Python None
None == JNull

\* the empty dict {} and the empty list []
EmptyDict == JObj(<<>>)
EmptyList == JArr(<<>>)

\* isinstance(x, dict) / isinstance(x, list) / isinstance(x, str)
IsDict(x) == x.t = "obj"
IsList(x) == x.t = "arr"
IsStr(x) == x.t = "str"

\* Python truth value of a parsed JSON value ("not self.data", "name and value")
Truthy(x) ==
    CASE x.t = "null" -> FALSE
      [] x.t = "bool" -> x.v
      [] x.t = "num" -> x.v # 0
      [] OTHER -> Len(x.v) > 0

\* Python can use x as a dict key (lists and dicts are unhashable)
Hashable(x) == x.t \notin {"arr", "obj"}

\* Python equality of dict keys: True == 1 and False == 0
PyKeyEq(a, b) ==
    \/ a = b
    \/ /\ a.t = "bool" /\ b.t = "num" /\ b.v = (IF a.v THEN 1 ELSE 0)
    \/ /\ a.t = "num" /\ b.t = "bool" /\ a.v = (IF b.v THEN 1 ELSE 0)

\* key in d, for a dict d
HasKey(d, k) == \E i \in 1..Len(d.v) : PyKeyEq(d.v[i][1], k)

\* d.get(k, default), for a dict d
DictGet(d, k, default) ==
    IF HasKey(d, k)
    THEN d.v[CHOOSE i \in 1..Len(d.v) : PyKeyEq(d.v[i][1], k)][2]
    ELSE default

\* d[k] = x, for a dict d and a hashable k: an existing key keeps its place
DictSet(d, k, x) ==
    IF HasKey(d, k)
    THEN JObj([i \in 1..Len(d.v) |->
                 IF PyKeyEq(d.v[i][1], k) THEN <<d.v[i][1], x>> ELSE d.v[i]])
    ELSE JObj(Append(d.v, <<k, x>>))

RECURSIVE DictUpdateFrom(_, _, _)
\* d.update(e), entries i.. of e
DictUpdateFrom(d, e, i) ==
    IF i > Len(e.v) THEN d
    ELSE DictUpdateFrom(DictSet(d, e.v[i][1], e.v[i][2]), e, i + 1)

DictUpdate(d, e) == DictUpdateFrom(d, e, 1)

----------------------------------------------------------------------------
(* Strings                                                                 *)

Upper == <<"A", "B", "C", "D", "E", "F", "G", "H", "I", "J", "K", "L", "M",
           "N", "O", "P", "Q", "R", "S", "T", "U", "V", "W", "X", "Y", "Z">>
Lower == <<"a", "b", "c", "d", "e", "f", "g", "h", "i", "j", "k", "l", "m",
           "n", "o", "p", "q", "r", "s", "t", "u", "v", "w", "x", "y", "z">>

LowerChar(c) ==
    IF \E i \in 1..Len(Upper) : Upper[i] = c
    THEN Lower[CHOOSE i \in 1..Len(Upper) : Upper[i] = c]
    ELSE c

\* str.lower()
StrLower(s) == [i \in 1..Len(s) |-> LowerChar(s[i])]

\* sub in s, for strings
StrContains(s, sub) ==
    \E i \in 0..(Len(s) - Len(sub)) : SubSeq(s, i + 1, i + Len(sub)) = sub

\* index of the first occurrence of character c in s, 0 when absent
FirstIndex(s, c) ==
    IF \E i \in 1..Len(s) : s[i] = c
    THEN CHOOSE i \in 1..Len(s) : s[i] = c /\ \A j \in 1..(i - 1) : s[j] # c
    ELSE 0

\* s.split(c)[0]
BeforeFirst(s, c) ==
    IF FirstIndex(s, c) = 0 THEN s ELSE SubSeq(s, 1, FirstIndex(s, c) - 1)

\* s.split(c, 1)[1], for s containing c
AfterFirst(s, c) == SubSeq(s, FirstIndex(s, c) + 1, Len(s))

Whitespace == {" ", "\t", "\n", "\r"}

\* str.strip()
StrStrip(s) ==
    IF \A i \in 1..Len(s) : s[i] \in Whitespace THEN <<>>
    ELSE LET lo == CHOOSE i \in 1..Len(s) :
                       s[i] \notin Whitespace /\ \A j \in 1..(i - 1) : s[j] \in Whitespace
             hi == CHOOSE i \in 1..Len(s) :
                       s[i] \notin Whitespace /\ \A j \in (i + 1)..Len(s) : s[j] \in Whitespace
         IN SubSeq(s, lo, hi)

\* a string of n copies of c
Rep(c, n) == [i \in 1..n |-> c]

\* key names the code looks up
K_cookies == JStr(<<"c", "o", "o", "k", "i", "e", "s">>)
K_log == JStr(<<"l", "o", "g">>)
K_name == JStr(<<"n", "a", "m", "e">>)
K_value == JStr(<<"v", "a", "l", "u", "e">>)
K_domain == JStr(<<"d", "o", "m", "a", "i", "n">>)
K_timestamp == JStr(<<"t", "i", "m", "e", "s", "t", "a", "m", "p">>)
K_entries == JStr(<<"e", "n", "t", "r", "i", "e", "s">>)
K_request == JStr(<<"r", "e", "q", "u", "e", "s", "t">>)
K_response == JStr(<<"r", "e", "s", "p", "o", "n", "s", "e">>)
K_headers == JStr(<<"h", "e", "a", "d", "e", "r", "s">>)
S_set_cookie == <<"s", "e", "t", "-", "c", "o", "o", "k", "i", "e">>

\* ['session', 'token', 'auth', 'cookie']
Keywords == { <<"s", "e", "s", "s", "i", "o", "n">>, <<"t", "o", "k", "e", "n">>,
              <<"a", "u", "t", "h">>, <<"c", "o", "o", "k", "i", "e">> }

\* len(value) > 10
MinValueLen == 10

\* if depth > 5: return
MaxSearchDepth == 5

----------------------------------------------------------------------------
(* detect_format                                                           *)

\* detect_format with the HAR test moved in front of the cookie-manager test
DetectFormat_HarFirst(d) ==
    IF ~Truthy(d) THEN "unknown"
    ELSE IF IsDict(d) /\ HasKey(d, K_log) THEN "har_file"
    ELSE IF IsDict(d) /\ HasKey(d, K_cookies) THEN "cookie_manager"
    ELSE IF IsDict(d) /\ \A i \in 1..Len(d.v) : IsStr(d.v[i][2]) THEN "direct_cookies"
    ELSE IF /\ IsList(d) /\ Len(d.v) > 0
            /\ IsDict(d.v[1]) /\ HasKey(d.v[1], K_name) /\ HasKey(d.v[1], K_value)
         THEN "browser_export"
    ELSE IF IsDict(d) /\ \E i \in 1..Len(d.v) :
                            IsDict(d.v[i][2]) /\ HasKey(d.v[i][2], K_cookies)
         THEN "nested_cookies"
    ELSE "unknown"

\* the value detect_format returns for document d
DetectFormat(d) ==
    IF ~Truthy(d) THEN "unknown"
    ELSE IF IsDict(d) /\ HasKey(d, K_cookies) THEN "cookie_manager"
    ELSE IF IsDict(d) /\ \A i \in 1..Len(d.v) : IsStr(d.v[i][2]) THEN "direct_cookies"
    ELSE IF /\ IsList(d) /\ Len(d.v) > 0
            /\ IsDict(d.v[1]) /\ HasKey(d.v[1], K_name) /\ HasKey(d.v[1], K_value)
         THEN "browser_export"
    ELSE IF IsDict(d) /\ HasKey(d, K_log) THEN "har_file"
    ELSE IF IsDict(d) /\ \E i \in 1..Len(d.v) :
                            IsDict(d.v[i][2]) /\ HasKey(d.v[i][2], K_cookies)
         THEN "nested_cookies"
    ELSE "unknown"

\* self.format_type after detect_format: the early return leaves it alone
FormatTypeAfter(d, old) == IF ~Truthy(d) THEN old ELSE DetectFormat(d)

----------------------------------------------------------------------------
(* Outcome of a call: a returned value or a propagated exception           *)

Return(x) == [kind |-> "return", val |-> x]
Raise(e) == [kind |-> "raise", exc |-> e]

\* "for x in v" accepts lists, dicts (their keys) and strings (their characters)
Iterable(x) == x.t \in {"arr", "obj", "str"}

PyIter(x) ==
    CASE x.t = "arr" -> x.v
      [] x.t = "obj" -> [i \in 1..Len(x.v) |-> x.v[i][1]]
      [] x.t = "str" -> [i \in 1..Len(x.v) |-> JStr(<<x.v[i]>>)]

----------------------------------------------------------------------------
(* _extract_cookie_manager_format                                          *)

\* time.time() - self.data['timestamp'] is defined for numbers (and bools)
Subtractable(x) == x.t \in {"num", "bool"}

\* _extract_cookie_manager_format keeping only the cookies with a non-empty value
ExtractCookieManagerFormat_NonEmpty(d) ==
    IF HasKey(d, K_timestamp) /\ ~Subtractable(DictGet(d, K_timestamp, None))
    THEN Raise("TypeError")
    ELSE IF ~IsDict(DictGet(d, K_cookies, EmptyDict))
    THEN Return(DictGet(d, K_cookies, EmptyDict))
    ELSE Return(JObj(SelectSeq(DictGet(d, K_cookies, EmptyDict).v, LAMBDA e : Truthy(e[2]))))

ExtractCookieManagerFormat(d) ==
    IF HasKey(d, K_timestamp) /\ ~Subtractable(DictGet(d, K_timestamp, None))
    THEN Raise("TypeError")
    ELSE Return(DictGet(d, K_cookies, EmptyDict))

(* _extract_direct_cookies_format                                          *)

\* _extract_direct_cookies_format dropping the cookies with an empty value
ExtractDirectCookiesFormat_NonEmpty(d) ==
    Return(JObj(SelectSeq(d.v, LAMBDA e : Truthy(e[2]))))

ExtractDirectCookiesFormat(d) == Return(d)

(* _extract_browser_export_format                                          *)

RECURSIVE BrowserExportFrom(_, _, _)
\* the loop over self.data from element i on, cookies being the dict so far
BrowserExportFrom(items, i, cookies) ==
    IF i > Len(items) THEN Return(cookies)
    ELSE LET cookie_obj == items[i]
             name == DictGet(cookie_obj, K_name, None)
             value == DictGet(cookie_obj, K_value, None)
         IN IF IsDict(cookie_obj) /\ Truthy(name) /\ Truthy(value)
            THEN IF Hashable(name)
                 THEN BrowserExportFrom(items, i + 1, DictSet(cookies, name, value))
                 ELSE Raise("TypeError")
            ELSE BrowserExportFrom(items, i + 1, cookies)

ExtractBrowserExportFormat(d) == BrowserExportFrom(d.v, 1, EmptyDict)

----------------------------------------------------------------------------
(* _extract_har_format: one try block around the whole walk; acc is        *)
(* [c |-> the cookies dict so far, ok |-> no exception has been caught]    *)

Abort(acc) == [c |-> acc.c, ok |-> FALSE]

\* '=' in cookie_str, an exception for values without membership test
HasEquals(x) ==
    CASE x.t = "str" -> \E i \in 1..Len(x.v) : x.v[i] = "="
      [] x.t = "arr" -> \E i \in 1..Len(x.v) : x.v[i] = JStr(<<"=">>)
      [] x.t = "obj" -> HasKey(x, JStr(<<"=">>))
      [] OTHER -> FALSE

\* the body of "for cookie in request.get('cookies', [])"
HarRequestCookie(cookie, acc) ==
    IF ~IsDict(cookie) THEN Abort(acc)
    ELSE LET name == DictGet(cookie, K_name, None)
             value == DictGet(cookie, K_value, None)
         IN IF Truthy(name) /\ Truthy(value)
            THEN IF Hashable(name)
                 THEN [c |-> DictSet(acc.c, name, value), ok |-> TRUE]
                 ELSE Abort(acc)
            ELSE acc

\* the pair of a Set-Cookie header value split without dropping its attributes
SetCookiePair_WholeValue(cookie_str) ==
    <<JStr(StrStrip(BeforeFirst(cookie_str, "="))), JStr(StrStrip(AfterFirst(cookie_str, "=")))>>

\* the pair a Set-Cookie header value yields: parts = value.split(';')[0],
\* name, value = parts.split('=', 1), both stripped
SetCookiePair(cookie_str) ==
    LET parts == BeforeFirst(cookie_str, ";")
    IN <<JStr(StrStrip(BeforeFirst(parts, "="))), JStr(StrStrip(AfterFirst(parts, "=")))>>

\* the body of "for header in response.get('headers', [])"
HarResponseHeader(header, acc) ==
    IF ~IsDict(header) THEN Abort(acc)
    ELSE LET hname == DictGet(header, K_name, JStr(<<>>))
             cookie_str == DictGet(header, K_value, JStr(<<>>))
         IN IF ~IsStr(hname) THEN Abort(acc)
            ELSE IF StrLower(hname.v) # S_set_cookie THEN acc
            ELSE IF cookie_str.t \in {"null", "bool", "num"} THEN Abort(acc)
            ELSE IF ~HasEquals(cookie_str) THEN acc
            ELSE IF ~IsStr(cookie_str) THEN Abort(acc)
            ELSE IF FirstIndex(BeforeFirst(cookie_str.v, ";"), "=") = 0 THEN acc
            ELSE [c |-> DictSet(acc.c, SetCookiePair(cookie_str.v)[1],
                                SetCookiePair(cookie_str.v)[2]),
                  ok |-> TRUE]

RECURSIVE HarRequestCookiesFrom(_, _, _)
HarRequestCookiesFrom(items, i, acc) ==
    IF ~acc.ok \/ i > Len(items) THEN acc
    ELSE HarRequestCookiesFrom(items, i + 1, HarRequestCookie(items[i], acc))

RECURSIVE HarResponseHeadersFrom(_, _, _)
HarResponseHeadersFrom(items, i, acc) ==
    IF ~acc.ok \/ i > Len(items) THEN acc
    ELSE HarResponseHeadersFrom(items, i + 1, HarResponseHeader(items[i], acc))

\* the body of "for entry in entries"
HarEntry(entry, acc) ==
    IF ~IsDict(entry) THEN Abort(acc)
    ELSE LET request == DictGet(entry, K_request, EmptyDict)
             response == DictGet(entry, K_response, EmptyDict)
             req_cookies == DictGet(request, K_cookies, EmptyList)
             headers == DictGet(response, K_headers, EmptyList)
             acc1 == IF ~IsDict(request) THEN Abort(acc)
                     ELSE IF ~Iterable(req_cookies) THEN Abort(acc)
                     ELSE HarRequestCookiesFrom(PyIter(req_cookies), 1, acc)
         IN IF ~acc1.ok THEN acc1
            ELSE IF ~IsDict(response) THEN Abort(acc1)
            ELSE IF ~Iterable(headers) THEN Abort(acc1)
            ELSE HarResponseHeadersFrom(PyIter(headers), 1, acc1)

RECURSIVE HarEntriesFrom(_, _, _)
HarEntriesFrom(items, i, acc) ==
    IF ~acc.ok \/ i > Len(items) THEN acc
    ELSE HarEntriesFrom(items, i + 1, HarEntry(items[i], acc))

\* the try block: the cookies collected, and whether it ran to its end
HarWalk(d) ==
    LET acc0 == [c |-> EmptyDict, ok |-> TRUE]
        log == DictGet(d, K_log, EmptyDict)
        entries == DictGet(log, K_entries, EmptyList)
    IN IF ~IsDict(log) THEN Abort(acc0)
       ELSE IF ~Iterable(entries) THEN Abort(acc0)
       ELSE HarEntriesFrom(PyIter(entries), 1, acc0)

ExtractHarFormat(d) == Return(HarWalk(d).c)

----------------------------------------------------------------------------
(* _extract_nested_format: acc is [c |-> the cookies dict so far,          *)
(* deep |-> the greatest nesting depth of a dict the walk has processed]   *)

Max(a, b) == IF a >= b THEN a ELSE b

RECURSIVE FindCookiesRecursive(_, _, _)
RECURSIVE FindCookiesItemsFrom(_, _, _, _)

\* find_cookies_recursive(obj), obj sitting at nesting depth 'depth'
FindCookiesRecursive(obj, depth, acc) ==
    IF ~IsDict(obj) THEN acc
    ELSE LET found_cookies == DictGet(obj, K_cookies, None)
             merged == IF HasKey(obj, K_cookies) /\ IsDict(found_cookies)
                       THEN DictUpdate(acc.c, found_cookies)
                       ELSE acc.c
         IN FindCookiesItemsFrom(obj.v, 1, depth,
                                 [c |-> merged, deep |-> Max(acc.deep, depth)])

\* "for key, value in obj.items()" from item i on
FindCookiesItemsFrom(items, i, depth, acc) ==
    IF i > Len(items) THEN acc
    ELSE FindCookiesItemsFrom(items, i + 1, depth,
                              FindCookiesRecursive(items[i][2], depth + 1, acc))

NestedWalk(d) == FindCookiesRecursive(d, 0, [c |-> EmptyDict, deep |-> -1])

ExtractNestedFormat(d) == Return(NestedWalk(d).c)

----------------------------------------------------------------------------
(* _extract_generic_format                                                 *)

\* the keyword test without key.lower()
HasKeyword_CaseSensitive(key) == \E kw \in Keywords : StrContains(key.v, kw)

\* any(keyword in key.lower() for keyword in [...])
HasKeyword(key) == \E kw \in Keywords : StrContains(StrLower(key.v), kw)

RECURSIVE SearchForCookies(_, _, _)
RECURSIVE SearchDictFrom(_, _, _, _)
RECURSIVE SearchListFrom(_, _, _, _)

\* search_for_cookies(obj, depth)
SearchForCookies(obj, depth, acc) ==
    IF depth > MaxSearchDepth THEN acc
    ELSE IF IsDict(obj)
         THEN SearchDictFrom(obj.v, 1, depth, [c |-> acc.c, deep |-> Max(acc.deep, depth)])
    ELSE IF IsList(obj)
         THEN SearchListFrom(obj.v, 1, depth, [c |-> acc.c, deep |-> Max(acc.deep, depth)])
    ELSE acc

\* "for key, value in obj.items()" from item i on
SearchDictFrom(items, i, depth, acc) ==
    IF i > Len(items) THEN acc
    ELSE LET key == items[i][1]
             value == items[i][2]
         IN SearchDictFrom(items, i + 1, depth,
                IF IsStr(value) /\ Len(value.v) > MinValueLen
                THEN IF HasKeyword(key)
                     THEN [c |-> DictSet(acc.c, key, value), deep |-> acc.deep]
                     ELSE acc
                ELSE IF IsDict(value) \/ IsList(value)
                     THEN SearchForCookies(value, depth + 1, acc)
                     ELSE acc)

\* "for item in obj" from item i on
SearchListFrom(items, i, depth, acc) ==
    IF i > Len(items) THEN acc
    ELSE SearchListFrom(items, i + 1, depth, SearchForCookies(items[i], depth + 1, acc))

GenericWalk(d) == SearchForCookies(d, 0, [c |-> EmptyDict, deep |-> -1])

ExtractGenericFormat(d) == Return(GenericWalk(d).c)

----------------------------------------------------------------------------
(* extract_cookies                                                         *)

\* extract_cookies dispatching on self.format_type, which detect_format leaves
\* as an earlier call set it when the document is empty
ExtractCookies_Stale(d) ==
    LET fmt == IF ~Truthy(d) /\ format_type = "direct_cookies" THEN "direct_cookies"
               ELSE DetectFormat(d)
    IN CASE fmt = "cookie_manager" -> ExtractCookieManagerFormat(d)
         [] fmt = "direct_cookies" -> ExtractDirectCookiesFormat(d)
         [] fmt = "browser_export" -> ExtractBrowserExportFormat(d)
         [] fmt = "har_file" -> ExtractHarFormat(d)
         [] fmt = "nested_cookies" -> ExtractNestedFormat(d)
         [] OTHER -> ExtractGenericFormat(d)

ExtractCookies(d) ==
    LET fmt == DetectFormat(d)
    IN CASE fmt = "cookie_manager" -> ExtractCookieManagerFormat(d)
         [] fmt = "direct_cookies" -> ExtractDirectCookiesFormat(d)
         [] fmt = "browser_export" -> ExtractBrowserExportFormat(d)
         [] fmt = "har_file" -> ExtractHarFormat(d)
         [] fmt = "nested_cookies" -> ExtractNestedFormat(d)
         [] OTHER -> ExtractGenericFormat(d)

\* the nesting depth the walk of extract_cookies reached (-1: no walk, or
\* nothing walked)
WalkDepth(d) ==
    CASE DetectFormat(d) = "nested_cookies" -> NestedWalk(d).deep
      [] DetectFormat(d) = "unknown" -> GenericWalk(d).deep
      [] OTHER -> -1

----------------------------------------------------------------------------
(* save_as_cookie_manager_format, and the JSON file it writes              *)

RECURSIVE Digits(_)
\* str(n), for a natural number n
Digits(n) ==
    IF n < 10 THEN <<(<<"0", "1", "2", "3", "4", "5", "6", "7", "8", "9">>)[n + 1]>>
    ELSE Digits(n \div 10) \o Digits(n % 10)

RECURSIVE JsonDump(_)
\* json.dump(x): the document written, its member names coerced to strings
\* (strings as they are, numbers, booleans and None as their JSON text; two
\* keys of a dict may be written under the same name)
JsonDump(x) ==
    LET Key(k) ==
            CASE k.t = "str" -> k
              [] k.t = "num" -> JStr(Digits(k.v))
              [] k.t = "bool" -> JStr(IF k.v THEN <<"t", "r", "u", "e">>
                                      ELSE <<"f", "a", "l", "s", "e">>)
              [] k.t = "null" -> JStr(<<"n", "u", "l", "l">>)
    IN CASE x.t = "obj" -> JObj([i \in 1..Len(x.v) |-> <<Key(x.v[i][1]), JsonDump(x.v[i][2])>>])
         [] x.t = "arr" -> JArr([i \in 1..Len(x.v) |-> JsonDump(x.v[i])])
         [] OTHER -> x

RECURSIVE JsonLoad(_)
\* json.load of a written document: of the members of an object a repeated
\* name keeps its first place and takes its last value
JsonLoad(x) ==
    LET RECURSIVE Members(_, _)
        Members(i, d) ==
            IF i > Len(x.v) THEN d
            ELSE Members(i + 1, DictSet(d, x.v[i][1], JsonLoad(x.v[i][2])))
    IN CASE x.t = "obj" -> Members(1, EmptyDict)
         [] x.t = "arr" -> JArr([i \in 1..Len(x.v) |-> JsonLoad(x.v[i])])
         [] OTHER -> x

\* the paths of the cookie file given to main and of the file it writes
InputFile == <<"c", "o", "o", "k", "i", "e", "s", ".", "j", "s", "o", "n">>
OutputFile == <<"s", "a", "v", "e", "d", ".", "j", "s", "o", "n">>

\* no file at the output path
NoFile == [t |-> "nofile"]

\* cookie_data of save_as_cookie_manager_format, called at clock reading now on
\* a reader of file path with format_type fmt. time.strftime gives a text made
\* from the clock; a format_type of None is written as null
CookieData(cookies, now, path, fmt) ==
    LET format_detected ==
            CASE fmt = "None" -> JNull
              [] fmt = "cookie_manager" -> JStr(<<"c", "o", "o", "k", "i", "e", "_", "m", "a", "n", "a", "g", "e", "r">>)
              [] fmt = "direct_cookies" -> JStr(<<"d", "i", "r", "e", "c", "t", "_", "c", "o", "o", "k", "i", "e", "s">>)
              [] fmt = "browser_export" -> JStr(<<"b", "r", "o", "w", "s", "e", "r", "_", "e", "x", "p", "o", "r", "t">>)
              [] fmt = "har_file" -> JStr(<<"h", "a", "r", "_", "f", "i", "l", "e">>)
              [] fmt = "nested_cookies" -> JStr(<<"n", "e", "s", "t", "e", "d", "_", "c", "o", "o", "k", "i", "e", "s">>)
              [] fmt = "unknown" -> JStr(<<"u", "n", "k", "n", "o", "w", "n">>)
    IN JObj(<< <<K_cookies, cookies>>,
               <<K_timestamp, JNum(now)>>,
               <<K_domain, JStr(<<"e", "x", "t", "r", "a", "c", "t", "e", "d", "_", "f", "r", "o", "m", "_", "j", "s", "o", "n">>)>>,
               <<JStr(<<"l", "a", "s", "t", "_", "r", "e", "f", "r", "e", "s", "h">>), JStr(Digits(now) \o <<"T">> \o Digits(now))>>,
               <<JStr(<<"s", "o", "u", "r", "c", "e", "_", "f", "i", "l", "e">>), JStr(path)>>,
               <<JStr(<<"f", "o", "r", "m", "a", "t", "_", "d", "e", "t", "e", "c", "t", "e", "d">>), format_detected>> >>)

----------------------------------------------------------------------------
(* The documents a cookie file may hold, within the bounds                 *)

\* entries of a top-level object
MaxEntries == 2
\* elements of a cookie array
MaxElems == 2
\* entries of a HAR log
MaxHarEntries == 2
\* levels of containers wrapped around a value
MaxChain == 7

Obj1(k, x) == JObj(<< <<k, x>> >>)
Obj2(k1, x1, k2, x2) == JObj(<< <<k1, x1>>, <<k2, x2>> >>)
Obj3(k1, x1, k2, x2, k3, x3) == JObj(<< <<k1, x1>>, <<k2, x2>>, <<k3, x3>> >>)

S(c) == JStr(<<c>>)
V_empty == JStr(<<>>)
V_ten == JStr(Rep("p", 10))
V_longP == JStr(Rep("p", 11))
V_longQ == JStr(Rep("q", 11))

Scalars == {JNull, JBool(FALSE), JBool(TRUE), JNum(0), JNum(1), V_empty, S("1"), V_longP}

\* strictly increasing index tuples of length n into 1..m
Increasing(n, m) == {f \in [1..n -> 1..m] : \A i \in 1..(n - 1) : f[i] < f[i + 1]}

\* injective index tuples of length n into 1..m
Injective(n, m) == {f \in [1..n -> 1..m] : \A i, j \in 1..n : i # j => f[i] # f[j]}

(* general objects: the keys detect_format tests, over values of every type *)
GKeys == <<K_cookies, K_log, K_name, K_timestamp, S("a")>>
GVals == { V_empty, S("1"), JNum(5), JNull, EmptyDict,
           Obj1(K_cookies, Obj1(S("X"), S("1"))),
           Obj3(S("X"), S("1"), S("n"), JNum(1), S("e"), V_empty) }
GDocs == UNION { { JObj([i \in 1..n |-> <<GKeys[idx[i]], val[i]>>]) :
                     idx \in Increasing(n, Len(GKeys)), val \in [1..n -> GVals] } :
                 n \in 0..MaxEntries }
         \cup { Obj2(K_name, S("a"), K_value, S("1")),
                Obj2(K_cookies, JArr(<<JNum(1)>>), K_log, EmptyDict) }

(* browser exports: arrays of cookie objects, well-formed or not *)
Cookie(n, x) == Obj2(K_name, n, K_value, x)
BElems == { Obj3(K_name, S("a"), K_value, S("1"), K_domain, S("x")),
            Cookie(S("b"), S("2")),
            Cookie(S("a"), S("2")),
            Obj1(K_name, S("a")),
            Obj1(K_value, S("1")),
            Cookie(V_empty, S("1")),
            Cookie(S("b"), V_empty),
            Cookie(S("b"), JNum(7)),
            Cookie(JNum(1), S("1")),
            Cookie(JBool(TRUE), S("2")),
            Cookie(JArr(<<S("a")>>), S("1")),
            JNum(5) }
BDocs == UNION { { JArr(a) : a \in [1..n -> BElems] } : n \in 0..MaxElems }

(* HAR files *)
Header(n, x) == Obj2(K_name, n, K_value, x)
H_SetCookie == JStr(<<"S", "e", "t", "-", "C", "o", "o", "k", "i", "e">>)
H_SET_COOKIE == JStr(<<"S", "E", "T", "-", "C", "O", "O", "K", "I", "E">>)
H_set_cookie == JStr(S_set_cookie)
H_Other == JStr(<<"X", "-", "O", "t", "h", "e", "r">>)
\* "SESSID=abc123; Path=/; HttpOnly"
SC_sessid == JStr(<<"S", "E", "S", "S", "I", "D", "=", "a", "b", "c", "1", "2", "3", ";",
                    " ", "P", "a", "t", "h", "=", "/", ";", " ", "H", "t", "t", "p",
                    "O", "n", "l", "y">>)
\* " a = 2 ;P=/"
SC_spaced == JStr(<<" ", "a", " ", "=", " ", "2", " ", ";", "P", "=", "/">>)
\* "P;a=b"
SC_late == JStr(<<"P", ";", "a", "=", "b">>)
\* "E=;P=/"
SC_novalue == JStr(<<"E", "=", ";", "P", "=", "/">>)
\* "a=b=c"
SC_two == JStr(<<"a", "=", "b", "=", "c">>)
\* "a=9"
SC_plain == JStr(<<"a", "=", "9">>)

Req1 == Obj1(K_cookies, JArr(<<Cookie(S("a"), S("1"))>>))
Req2 == Obj1(K_cookies, JArr(<<Cookie(S("a"), V_empty), Cookie(S("b"), S("2")),
                               Cookie(S("a"), S("2"))>>))
Req3 == Obj1(K_cookies, JArr(<<Cookie(JArr(<<S("a")>>), S("1"))>>))
Resp1 == Obj1(K_headers, JArr(<<Header(H_SetCookie, SC_sessid)>>))
Resp2 == Obj1(K_headers, JArr(<<Header(H_SET_COOKIE, SC_spaced), Header(H_set_cookie, SC_late)>>))
Resp3 == Obj1(K_headers, JArr(<<Header(H_set_cookie, SC_novalue), Header(H_Other, SC_plain),
                                Header(H_set_cookie, SC_two)>>))
Resp4 == Obj1(K_headers, JArr(<<Header(H_set_cookie, JNum(5))>>))
HEntries == { Obj1(K_response, Resp1),
              Obj2(K_request, Req1, K_response, Resp1),
              Obj2(K_request, Req2, K_response, Resp2),
              Obj1(K_response, Resp3),
              Obj2(K_request, Req3, K_response, Resp1),
              Obj2(K_request, Req1, K_response, Resp4),
              Obj1(K_request, Req1),
              Obj1(K_request, JNull),
              EmptyDict,
              JNum(5) }
\* entries whose cookies or headers are of an unexpected type
HOddEntries == { Obj1(K_response, Obj1(K_headers,
                     JArr(<<Header(H_set_cookie, JArr(<<S("=")>>)), Header(H_set_cookie, SC_plain)>>))),
                 Obj1(K_response, Obj1(K_headers,
                     JArr(<<Header(H_set_cookie, JArr(<<JNum(1)>>)), Header(H_set_cookie, SC_plain)>>))),
                 Obj1(K_response, Obj1(K_headers,
                     JArr(<<Header(H_set_cookie, Obj1(S("="), S("1"))), Header(H_set_cookie, SC_plain)>>))),
                 Obj1(K_response, Obj1(K_headers, JArr(<<Header(JNull, SC_plain)>>))),
                 Obj1(K_response, Obj1(K_headers, JArr(<<Obj1(K_value, SC_plain), Header(H_set_cookie, SC_two)>>))),
                 Obj1(K_request, Obj1(K_cookies, Obj1(S("k"), JNum(1)))),
                 Obj1(K_request, Obj1(K_cookies, V_empty)),
                 Obj2(K_request, Req1, K_response, JNum(5)) }
HDocs == UNION { { Obj1(K_log, Obj1(K_entries, JArr(a))) : a \in [1..n -> HEntries] } :
                 n \in 0..MaxHarEntries }
         \cup { Obj1(K_log, Obj1(K_entries, JNum(5))),
                Obj1(K_log, Obj1(K_entries, Obj1(S("k"), JNum(1)))),
                Obj1(K_log, Obj1(K_entries, S("a"))),
                Obj2(K_log, Obj1(K_entries, JArr(<<Obj1(K_request, Req1)>>)), S("a"), JNum(1)) }
         \cup { Obj1(K_log, Obj1(K_entries, JArr(<<e>>))) : e \in HOddEntries }

(* nested structures *)
RECURSIVE Chain(_, _)
\* x under k levels of {"nested": ...}
Chain(k, x) == IF k = 0 THEN x ELSE Obj1(JStr(<<"n", "e", "s", "t", "e", "d">>), Chain(k - 1, x))

K_auth == JStr(<<"a", "u", "t", "h">>)
K_other == JStr(<<"o", "t", "h", "e", "r">>)
NVals == { Obj1(K_cookies, Obj1(S("X"), S("1"))),
           Obj1(K_cookies, Obj2(S("X"), S("2"), S("Y"), S("2"))),
           JArr(<<Obj1(K_cookies, Obj1(S("Y"), S("2")))>>),
           Obj2(S("x"), Obj1(K_cookies, Obj1(S("K"), S("1"))), K_cookies, Obj1(S("K"), S("2"))),
           Obj1(K_cookies, Obj1(K_cookies, Obj1(S("Z"), S("9")))),
           Obj1(K_cookies, JNum(5)) }
         \cup { Chain(k, Obj1(K_cookies, Obj1(S("Y"), S("2")))) : k \in 1..MaxChain }
NDocs == { Obj1(K_auth, x) : x \in NVals }
         \cup { Obj2(K_auth, x, K_other, y) : x, y \in NVals }

(* documents of no known format *)
RECURSIVE WrapObj(_, _)
RECURSIVE WrapArr(_, _)
RECURSIVE WrapMix(_, _)
WrapObj(k, x) == IF k = 0 THEN x ELSE Obj1(S("w"), WrapObj(k - 1, x))
WrapArr(k, x) == IF k = 0 THEN x ELSE JArr(<<WrapArr(k - 1, x)>>)
WrapMix(k, x) ==
    IF k = 0 THEN x
    ELSE IF k % 2 = 1 THEN Obj1(S("w"), WrapMix(k - 1, x)) ELSE JArr(<<WrapMix(k - 1, x)>>)

UKeys == << JStr(<<"A", "u", "t", "h">>), JStr(<<"t", "o", "k">>),
            JStr(<<"m", "y", "C", "O", "O", "K", "I", "E">>) >>
UVals == {V_longP, V_ten, JNum(5)}
UCores == UNION { { JObj([i \in 1..n |-> <<UKeys[idx[i]], val[i]>>]) :
                      idx \in Injective(n, Len(UKeys)), val \in [1..n -> UVals] } :
                  n \in 0..2 }
UDups == { Obj2(UKeys[1], x, S("w"), Obj1(UKeys[1], y)) : x, y \in {V_longP, V_longQ, V_ten} }
          \cup { Obj2(S("w"), Obj1(UKeys[1], y), UKeys[1], x) : x, y \in {V_longP, V_longQ, V_ten} }
UDocs == UNION { { WrapObj(k, x), WrapArr(k, x), WrapMix(k, x) } :
                   k \in 0..MaxChain, x \in UCores }
         \cup UDups

Docs == Scalars \cup GDocs \cup BDocs \cup HDocs \cup NDocs \cup UDocs

\* the clock readings of time.time()
MaxClock == 2

\* cookie sets handed to save_as_cookie_manager_format by a caller that built
\* them itself
CookieSets ==
    LET CKeys == <<S("X"), S("Y"), JStr(<<"1">>)>>
        CVals == {S("1"), V_empty, V_longP}
    IN UNION { { JObj([i \in 1..n |-> <<CKeys[idx[i]], val[i]>>]) :
                   idx \in Injective(n, Len(CKeys)), val \in [1..n -> CVals] } :
               n \in 0..MaxEntries }

----------------------------------------------------------------------------
(* Session bootstrap: ExtendedJiraManager.load_config and load_cookies     *)

\* s.rstrip(c)
RStrip(s, c) ==
    IF \A i \in 1..Len(s) : s[i] = c THEN <<>>
    ELSE SubSeq(s, 1, CHOOSE i \in 1..Len(s) :
                          s[i] # c /\ \A j \in (i + 1)..Len(s) : s[j] = c)

\* str(x) as an f-string formats it, for a string, a number, a boolean or None
PyStr(x) ==
    CASE x.t = "str" -> x.v
      [] x.t = "num" -> Digits(x.v)
      [] x.t = "bool" -> IF x.v THEN <<"T", "r", "u", "e">> ELSE <<"F", "a", "l", "s", "e">>
      [] x.t = "null" -> <<"N", "o", "n", "e">>

\* the headers of a new requests.Session()
SessionHeaders ==
    JObj(<< <<JStr(<<"U", "s", "e", "r", "-", "A", "g", "e", "n", "t">>), S("python-requests")>>,
            <<JStr(<<"A", "c", "c", "e", "p", "t", "-", "E", "n", "c", "o", "d", "i", "n", "g">>), S("gzip, deflate")>>,
            <<JStr(<<"A", "c", "c", "e", "p", "t">>), S("*/*")>>,
            <<JStr(<<"C", "o", "n", "n", "e", "c", "t", "i", "o", "n">>), S("keep-alive")>> >>)

\* h[k] = x, for the case-insensitive session.headers: a header already set,
\* in any case, keeps its place and takes the new name and value
HeaderSet(h, k, x) ==
    IF \E i \in 1..Len(h.v) : StrLower(h.v[i][1].v) = StrLower(k.v)
    THEN JObj([i \in 1..Len(h.v) |->
                 IF StrLower(h.v[i][1].v) = StrLower(k.v) THEN <<k, x>> ELSE h.v[i]])
    ELSE JObj(Append(h.v, <<k, x>>))

RECURSIVE HeadersUpdate(_, _, _)
\* session.headers.update(x), from item i of x on: the headers, and whether the
\* update went through (a value that cannot be iterated, an item that is not a
\* pair, or a name that is not a string raises, the earlier items staying set)
HeadersUpdate(h, x, i) ==
    IF ~Iterable(x) THEN [h |-> h, ok |-> FALSE]
    ELSE IF i > Len(x.v) THEN [h |-> h, ok |-> TRUE]
    ELSE LET Pair(k, v) ==
                 IF k.t # "str" THEN [h |-> h, ok |-> FALSE]
                 ELSE HeadersUpdate(HeaderSet(h, k, v), x, i + 1)
             Item(item) ==
                 IF ~Iterable(item) \/ Len(item.v) # 2 THEN [h |-> h, ok |-> FALSE]
                 ELSE Pair(PyIter(item)[1], PyIter(item)[2])
         IN IF x.t = "obj" THEN Pair(x.v[i][1], x.v[i][2]) ELSE Item(PyIter(x)[i])

\* the browser-like headers load_cookies applies, the Referer made from jira_url
BrowserHeaders(jira_url) ==
    JObj(<< <<JStr(<<"U", "s", "e", "r", "-", "A", "g", "e", "n", "t">>), S("Mozilla/5.0 (Macintosh; Intel Mac OS X 10_15_7) AppleWebKit/537.36 (KHTML, like Gecko) Chrome/120.0.0.0 Safari/537.36")>>,
            <<JStr(<<"A", "c", "c", "e", "p", "t">>), S("application/json, text/javascript, */*; q=0.01")>>,
            <<JStr(<<"A", "c", "c", "e", "p", "t", "-", "L", "a", "n", "g", "u", "a", "g", "e">>), S("en-US,en;q=0.9")>>,
            <<JStr(<<"A", "c", "c", "e", "p", "t", "-", "E", "n", "c", "o", "d", "i", "n", "g">>), S("gzip, deflate, br")>>,
            <<JStr(<<"C", "o", "n", "n", "e", "c", "t", "i", "o", "n">>), S("keep-alive")>>,
            <<JStr(<<"X", "-", "A", "t", "l", "a", "s", "s", "i", "a", "n", "-", "T", "o", "k", "e", "n">>), S("no-check")>>,
            <<JStr(<<"X", "-", "R", "e", "q", "u", "e", "s", "t", "e", "d", "-", "W", "i", "t", "h">>), S("XMLHttpRequest")>>,
            <<JStr(<<"S", "e", "c", "-", "F", "e", "t", "c", "h", "-", "D", "e", "s", "t">>), S("empty")>>,
            <<JStr(<<"S", "e", "c", "-", "F", "e", "t", "c", "h", "-", "M", "o", "d", "e">>), S("cors")>>,
            <<JStr(<<"S", "e", "c", "-", "F", "e", "t", "c", "h", "-", "S", "i", "t", "e">>), S("same-origin")>>,
            <<JStr(<<"S", "e", "c", "-", "C", "h", "-", "U", "a">>), S("\"Not_A Brand\";v=\"8\", \"Chromium\";v=\"120\", \"Google Chrome\";v=\"120\"")>>,
            <<JStr(<<"S", "e", "c", "-", "C", "h", "-", "U", "a", "-", "M", "o", "b", "i", "l", "e">>), S("?0")>>,
            <<JStr(<<"S", "e", "c", "-", "C", "h", "-", "U", "a", "-", "P", "l", "a", "t", "f", "o", "r", "m">>), S("\"macOS\"")>>,
            <<JStr(<<"C", "a", "c", "h", "e", "-", "C", "o", "n", "t", "r", "o", "l">>), S("no-cache")>>,
            <<JStr(<<"P", "r", "a", "g", "m", "a">>), S("no-cache")>>,
            <<JStr(<<"D", "N", "T">>), S("1")>>,
            <<JStr(<<"U", "p", "g", "r", "a", "d", "e", "-", "I", "n", "s", "e", "c", "u", "r", "e", "-", "R", "e", "q", "u", "e", "s", "t", "s">>), S("1")>>,
            <<JStr(<<"R", "e", "f", "e", "r", "e", "r">>), IF Truthy(jira_url)
                         THEN JStr(PyStr(jira_url) \o <<"/", "s", "e", "c", "u", "r", "e", "/", "D", "a", "s", "h", "b", "o", "a", "r", "d", ".", "j", "s", "p", "a">>)
                         ELSE V_empty>> >>)

RECURSIVE CookiesSet(_, _, _)
\* session.cookies.set(name, value) for entries i.. of the dict cookies: a
\* value of None removes the cookie of that name, any other value sets it
CookiesSet(jar, cookies, i) ==
    IF i > Len(cookies.v) THEN jar
    ELSE CookiesSet(IF cookies.v[i][2] = None
                    THEN JObj(SelectSeq(jar.v, LAMBDA e : e[1] # cookies.v[i][1]))
                    ELSE DictSet(jar, cookies.v[i][1], cookies.v[i][2]),
                    cookies, i + 1)

\* ExtendedJiraManager.__init__
NewManager ==
    [jira_url |-> None, cookies_loaded |-> FALSE, config_loaded |-> FALSE,
     headers |-> SessionHeaders, cookies |-> EmptyDict]

\* load_config on manager m, the config file holding document file (NoFile: no
\* file, or no JSON): the manager afterwards and the value returned
LoadConfig(m, file) ==
    LET Updated(m1, u) ==
            IF ~u.ok THEN [m |-> [m1 EXCEPT !.headers = u.h], ok |-> FALSE]
            ELSE [m |-> [m1 EXCEPT !.headers = u.h, !.config_loaded = TRUE], ok |-> TRUE]
        Assigned(m1) ==
            IF ~Truthy(m1.jira_url) THEN [m |-> m1, ok |-> FALSE]
            ELSE IF ~HasKey(file, K_headers)
            THEN [m |-> [m1 EXCEPT !.config_loaded = TRUE], ok |-> TRUE]
            ELSE Updated(m1, HeadersUpdate(m1.headers, DictGet(file, K_headers, None), 1))
    IN IF file = NoFile \/ ~IsDict(file) THEN [m |-> m, ok |-> FALSE]
       ELSE Assigned([m EXCEPT !.jira_url = DictGet(file, JStr(<<"j", "i", "r", "a", "_", "u", "r", "l">>), None)])

\* load_cookies on manager m, the cookie file holding document file
LoadCookies(m, file) ==
    LET Applied(cookies) ==
            IF ~Truthy(cookies) \/ ~IsDict(cookies) THEN [m |-> m, ok |-> FALSE]
            ELSE [m |-> [m EXCEPT
                           !.cookies = CookiesSet(m.cookies, cookies, 1),
                           !.headers = HeadersUpdate(m.headers, BrowserHeaders(m.jira_url), 1).h,
                           !.cookies_loaded = TRUE],
                  ok |-> TRUE]
    IN IF file = NoFile \/ ~IsDict(file) THEN [m |-> m, ok |-> FALSE]
       ELSE Applied(DictGet(file, K_cookies, EmptyDict))

\* a manager that never counts as ready
IsReady_Never(m) == FALSE

\* is_ready, as a truth value
IsReady(m) == m.config_loaded /\ m.cookies_loaded /\ Truthy(m.jira_url)

----------------------------------------------------------------------------
(* The tools of ExtendedJiraManager and their dispatch                     *)

\* a tool table that advertises a name execute_tool has no branch for
Tools_Renamed == << "jira_search", "jira_get_agile_boards" >>

\* the names of the tool descriptors of self.tools, in its order
Tools == <<
    "jira_search", "jira_get_issue", "jira_get_user_profile",
    "jira_add_comment", "jira_get_comments", "jira_get_projects",
    "jira_get_project", "jira_get_project_issues", "jira_get_transitions",
    "jira_transition_issue", "jira_get_worklog", "jira_add_worklog",
    "jira_create_issue", "jira_update_issue", "jira_get_boards",
    "jira_get_board_issues", "jira_get_fields", "jira_search_fields",
    "jira_get_custom_fields", "jira_link_to_epic", "jira_get_epic_issues",
    "jira_create_issue_link", "jira_get_issue_link_types",
    "jira_create_sprint", "jira_get_sprint_issues",
    "jira_get_all_sprints_from_board", "jira_get_project_versions",
    "jira_create_version", "jira_delete_issue", "jira_get_user_by_username",
    "jira_get_attachments", "jira_download_attachment",
    "jira_delete_attachment", "jira_update_comment", "jira_delete_comment",
    "jira_get_watchers", "jira_add_watcher", "jira_remove_watcher",
    "jira_clone_issue", "jira_assign_issue", "jira_unassign_issue",
    "jira_update_sprint", "jira_start_sprint", "jira_complete_sprint",
    "jira_update_worklog", "jira_delete_worklog", "jira_batch_create_issues",
    "jira_batch_create_versions", "jira_batch_get_changelogs",
    "jira_create_remote_issue_link", "jira_remove_issue_link" >>

\* the branches of execute_tool, in its order: the name compared, whether the
\* branch reads arguments, the shape of the method called (kind), and for a
\* method that makes one request its HTTP method, the path it appends to
\* jira_url and the key it wraps the response in
Dispatch == <<
    [name |-> "jira_search", args |-> TRUE, kind |-> "json", method |-> "GET",
     path |-> "/rest/api/2/search", key |-> ""],
    [name |-> "jira_get_issue", args |-> TRUE, kind |-> "json", method |-> "GET",
     path |-> "/rest/api/2/issue/{issue_key}", key |-> ""],
    [name |-> "jira_get_user_profile", args |-> FALSE, kind |-> "json", method |-> "GET",
     path |-> "/rest/api/2/myself", key |-> ""],
    [name |-> "jira_add_comment", args |-> TRUE, kind |-> "json", method |-> "POST",
     path |-> "/rest/api/2/issue/{issue_key}/comment", key |-> ""],
    [name |-> "jira_get_comments", args |-> TRUE, kind |-> "json", method |-> "GET",
     path |-> "/rest/api/2/issue/{issue_key}/comment", key |-> ""],
    [name |-> "jira_get_projects", args |-> FALSE, kind |-> "wrap", method |-> "GET",
     path |-> "/rest/api/2/project", key |-> "projects"],
    [name |-> "jira_get_project", args |-> TRUE, kind |-> "json", method |-> "GET",
     path |-> "/rest/api/2/project/{project_key}", key |-> ""],
    [name |-> "jira_get_transitions", args |-> TRUE, kind |-> "json", method |-> "GET",
     path |-> "/rest/api/2/issue/{issue_key}/transitions", key |-> ""],
    [name |-> "jira_get_fields", args |-> FALSE, kind |-> "wrap", method |-> "GET",
     path |-> "/rest/api/2/field", key |-> "fields"],
    [name |-> "jira_search_fields", args |-> TRUE, kind |-> "search_fields", method |-> "GET",
     path |-> "/rest/api/2/field", key |-> "fields"],
    [name |-> "jira_get_custom_fields", args |-> FALSE, kind |-> "custom_fields", method |-> "GET",
     path |-> "/rest/api/2/field", key |-> "custom_fields"],
    [name |-> "jira_get_project_issues", args |-> TRUE, kind |-> "search", method |-> "",
     path |-> "", key |-> ""],
    [name |-> "jira_transition_issue", args |-> TRUE, kind |-> "transition", method |-> "",
     path |-> "", key |-> ""],
    [name |-> "jira_get_worklog", args |-> TRUE, kind |-> "json", method |-> "GET",
     path |-> "/rest/api/2/issue/{issue_key}/worklog", key |-> ""],
    [name |-> "jira_add_worklog", args |-> TRUE, kind |-> "success", method |-> "POST",
     path |-> "/rest/api/2/issue/{issue_key}/worklog", key |-> ""],
    [name |-> "jira_create_issue", args |-> TRUE, kind |-> "create_issue", method |-> "POST",
     path |-> "/rest/api/2/issue", key |-> "issue"],
    [name |-> "jira_update_issue", args |-> TRUE, kind |-> "success", method |-> "PUT",
     path |-> "/rest/api/2/issue/{issue_key}", key |-> ""],
    [name |-> "jira_delete_issue", args |-> TRUE, kind |-> "success", method |-> "DELETE",
     path |-> "/rest/api/2/issue/{issue_key}", key |-> ""],
    [name |-> "jira_get_boards", args |-> FALSE, kind |-> "json", method |-> "GET",
     path |-> "/rest/agile/1.0/board", key |-> ""],
    [name |-> "jira_get_board_issues", args |-> TRUE, kind |-> "json", method |-> "GET",
     path |-> "/rest/agile/1.0/board/{board_id}/issue", key |-> ""],
    [name |-> "jira_get_project_versions", args |-> TRUE, kind |-> "wrap", method |-> "GET",
     path |-> "/rest/api/2/project/{project_key}/versions", key |-> "versions"],
    [name |-> "jira_create_version", args |-> TRUE, kind |-> "create_version", method |-> "POST",
     path |-> "/rest/api/2/version", key |-> "version"],
    [name |-> "jira_get_user_by_username", args |-> TRUE, kind |-> "json", method |-> "GET",
     path |-> "/rest/api/2/user?username={username}", key |-> ""],
    [name |-> "jira_link_to_epic", args |-> TRUE, kind |-> "link_to_epic", method |-> "",
     path |-> "", key |-> ""],
    [name |-> "jira_get_epic_issues", args |-> TRUE, kind |-> "search", method |-> "",
     path |-> "", key |-> ""],
    [name |-> "jira_create_issue_link", args |-> TRUE, kind |-> "success", method |-> "POST",
     path |-> "/rest/api/2/issueLink", key |-> ""],
    [name |-> "jira_get_issue_link_types", args |-> FALSE, kind |-> "json", method |-> "GET",
     path |-> "/rest/api/2/issueLinkType", key |-> ""],
    [name |-> "jira_create_sprint", args |-> TRUE, kind |-> "json", method |-> "POST",
     path |-> "/rest/agile/1.0/sprint", key |-> ""],
    [name |-> "jira_get_sprint_issues", args |-> TRUE, kind |-> "json", method |-> "GET",
     path |-> "/rest/agile/1.0/sprint/{sprint_id}/issue", key |-> ""],
    [name |-> "jira_get_all_sprints_from_board", args |-> TRUE, kind |-> "json", method |-> "GET",
     path |-> "/rest/agile/1.0/board/{board_id}/sprint", key |-> ""],
    [name |-> "jira_get_attachments", args |-> TRUE, kind |-> "attachments", method |-> "GET",
     path |-> "/rest/api/2/issue/{issue_key}?fields=attachment", key |-> "attachments"],
    [name |-> "jira_download_attachment", args |-> TRUE, kind |-> "download", method |-> "GET",
     path |-> "/rest/api/2/attachment/{attachment_id}", key |-> ""],
    [name |-> "jira_delete_attachment", args |-> TRUE, kind |-> "success", method |-> "DELETE",
     path |-> "/rest/api/2/attachment/{attachment_id}", key |-> ""],
    [name |-> "jira_update_comment", args |-> TRUE, kind |-> "success", method |-> "PUT",
     path |-> "/rest/api/2/issue/{issue_key}/comment/{comment_id}", key |-> ""],
    [name |-> "jira_delete_comment", args |-> TRUE, kind |-> "success", method |-> "DELETE",
     path |-> "/rest/api/2/issue/{issue_key}/comment/{comment_id}", key |-> ""],
    [name |-> "jira_get_watchers", args |-> TRUE, kind |-> "json", method |-> "GET",
     path |-> "/rest/api/2/issue/{issue_key}/watchers", key |-> ""],
    [name |-> "jira_add_watcher", args |-> TRUE, kind |-> "success", method |-> "POST",
     path |-> "/rest/api/2/issue/{issue_key}/watchers", key |-> ""],
    [name |-> "jira_remove_watcher", args |-> TRUE, kind |-> "success", method |-> "DELETE",
     path |-> "/rest/api/2/issue/{issue_key}/watchers?username={username}", key |-> ""],
    [name |-> "jira_clone_issue", args |-> TRUE, kind |-> "clone", method |-> "",
     path |-> "", key |-> ""],
    [name |-> "jira_assign_issue", args |-> TRUE, kind |-> "success", method |-> "PUT",
     path |-> "/rest/api/2/issue/{issue_key}/assignee", key |-> ""],
    [name |-> "jira_unassign_issue", args |-> TRUE, kind |-> "success", method |-> "PUT",
     path |-> "/rest/api/2/issue/{issue_key}/assignee", key |-> ""],
    [name |-> "jira_update_sprint", args |-> TRUE, kind |-> "success", method |-> "PUT",
     path |-> "/rest/agile/1.0/sprint/{sprint_id}", key |-> ""],
    [name |-> "jira_start_sprint", args |-> TRUE, kind |-> "success", method |-> "PUT",
     path |-> "/rest/agile/1.0/sprint/{sprint_id}", key |-> ""],
    [name |-> "jira_complete_sprint", args |-> TRUE, kind |-> "success", method |-> "PUT",
     path |-> "/rest/agile/1.0/sprint/{sprint_id}", key |-> ""],
    [name |-> "jira_update_worklog", args |-> TRUE, kind |-> "success", method |-> "PUT",
     path |-> "/rest/api/2/issue/{issue_key}/worklog/{worklog_id}", key |-> ""],
    [name |-> "jira_delete_worklog", args |-> TRUE, kind |-> "success", method |-> "DELETE",
     path |-> "/rest/api/2/issue/{issue_key}/worklog/{worklog_id}", key |-> ""],
    [name |-> "jira_batch_create_issues", args |-> TRUE, kind |-> "batch_create_issues", method |-> "",
     path |-> "", key |-> ""],
    [name |-> "jira_batch_create_versions", args |-> TRUE, kind |-> "batch_create_versions", method |-> "",
     path |-> "", key |-> ""],
    [name |-> "jira_batch_get_changelogs", args |-> TRUE, kind |-> "batch_get_changelogs", method |-> "",
     path |-> "", key |-> ""],
    [name |-> "jira_create_remote_issue_link", args |-> TRUE, kind |-> "success", method |-> "POST",
     path |-> "/rest/api/2/issue/{issue_key}/remotelink", key |-> ""],
    [name |-> "jira_remove_issue_link", args |-> TRUE, kind |-> "success", method |-> "DELETE",
     path |-> "/rest/api/2/issueLink/{link_id}", key |-> ""] >>

\* what one HTTP request can come to: session.request raises, or a response
\* with a status, a body (a JSON document, or text that is not JSON) and a
\* content length
Outcomes ==
    LET Text == [t |-> "text"]
        Issue == Obj3(JStr(<<"k", "e", "y">>), S("A-1"),
                      JStr(<<"t", "r", "a", "n", "s", "i", "t", "i", "o", "n", "s">>), JArr(<<Obj2(K_name, JStr(<<"D", "o", "n", "e">>), JStr(<<"i", "d">>), S("31")),
                                            Obj1(K_name, JNum(5))>>),
                      JStr(<<"f", "i", "e", "l", "d", "s">>), Obj1(JStr(<<"p", "r", "o", "j", "e", "c", "t">>), Obj1(JStr(<<"k", "e", "y">>), S("P"))))
        FieldList == JArr(<<Obj2(K_name, JStr(<<"S", "u", "m", "m", "a", "r", "y">>), JStr(<<"i", "d">>), S("summary")),
                            Obj3(K_name, JStr(<<"E", "p", "i", "c", " ", "L", "i", "n", "k">>), JStr(<<"i", "d">>), S("cf1"), JStr(<<"c", "u", "s", "t", "o", "m">>), JBool(TRUE))>>)
    IN { [kind |-> "exc"],
         [kind |-> "resp", status |-> 404, body |-> Text, size |-> 1],
         [kind |-> "resp", status |-> 304, body |-> Text, size |-> 0],
         [kind |-> "resp", status |-> 200, body |-> Text, size |-> 1],
         [kind |-> "resp", status |-> 200, body |-> Issue, size |-> 1],
         [kind |-> "resp", status |-> 201, body |-> FieldList, size |-> 1] }

\* the try block of a method that makes one request (t its branch of the
\* dispatch), the request coming to outcome o: the dict returned. A message of
\* the source is kept whole; str(e) is the name of the exception
PlainTool(t, arguments, o) ==
    LET Fail(e) == Obj1(JStr(<<"e", "r", "r", "o", "r">>), S(e))
        \* the comprehension of jira_search_fields (query a string or not) and
        \* of jira_get_custom_fields over the fields listed
        BadField(f, query) ==
            \/ t.kind = "search_fields" /\ query.t # "str"
            \/ ~IsDict(f)
            \/ t.kind = "search_fields" /\ DictGet(f, K_name, V_empty).t # "str"
        Keep(f, query) ==
            IF t.kind = "search_fields"
            THEN StrContains(StrLower(DictGet(f, K_name, V_empty).v), StrLower(query.v))
            ELSE Truthy(DictGet(f, JStr(<<"c", "u", "s", "t", "o", "m">>), JBool(FALSE)))
        Fields(items, query) ==
            IF \E i \in 1..Len(items) : BadField(items[i], query) THEN Fail("AttributeError")
            ELSE Obj1(S(t.key), JArr(SelectSeq(items, LAMBDA f : Keep(f, query))))
        Attachments(fields) ==
            IF ~IsDict(fields) THEN Fail("AttributeError")
            ELSE Obj1(S(t.key), DictGet(fields, JStr(<<"a", "t", "t", "a", "c", "h", "m", "e", "n", "t">>), EmptyList))
        Parsed(body) ==
            IF t.kind \in {"json", "search"} THEN body
            ELSE IF t.kind = "wrap" THEN Obj1(S(t.key), body)
            ELSE IF t.kind \in {"search_fields", "custom_fields"}
            THEN IF ~Iterable(body) THEN Fail("TypeError")
                 ELSE Fields(PyIter(body), DictGet(arguments, JStr(<<"q", "u", "e", "r", "y">>), V_empty))
            ELSE IF t.kind = "attachments"
            THEN IF ~IsDict(body) THEN Fail("AttributeError")
                 ELSE Attachments(DictGet(body, JStr(<<"f", "i", "e", "l", "d", "s">>), EmptyDict))
            ELSE IF t.kind = "create_issue"
            THEN IF ~IsDict(body) THEN Fail("AttributeError")
                 ELSE Obj2(JStr(<<"s", "u", "c", "c", "e", "s", "s">>), S(t.name), S(t.key), body)
            ELSE \* create_version
                 Obj2(JStr(<<"s", "u", "c", "c", "e", "s", "s">>), S(t.name), S(t.key), body)
    IN IF o.kind = "exc" THEN Fail("ConnectionError")
       ELSE IF o.status >= 400 /\ o.status < 600 THEN Fail("HTTPError")
       ELSE IF t.kind = "success" THEN Obj1(JStr(<<"s", "u", "c", "c", "e", "s", "s">>), S(t.name))
       ELSE IF t.kind = "download"
       THEN Obj2(JStr(<<"s", "u", "c", "c", "e", "s", "s">>), S(t.name), JStr(<<"s", "i", "z", "e">>), JNum(o.size))
       ELSE IF o.body.t = "text" THEN Fail("JSONDecodeError")
       ELSE Parsed(o.body)

\* the try block of a method that calls another tool or makes a second request
\* (jira_transition_issue, jira_link_to_epic, jira_clone_issue) or walks its
\* argument before its request (jira_batch_create_issues), request i coming to
\* env[i], get being the branch of the tool called first: the dict returned
\* and the requests made, in order
CompositeTool(t, get, arguments, env) ==
    LET Fail(e) == Obj1(JStr(<<"e", "r", "r", "o", "r">>), S(e))
        Req(method, path) == [method |-> method, path |-> path]
        Out(result, http) == [result |-> result, http |-> http]
        Raises(o) == o.kind = "exc" \/ (o.status >= 400 /\ o.status < 600)
        Raised(o) == Fail(IF o.kind = "exc" THEN "ConnectionError" ELSE "HTTPError")
        \* the first index of a set, 0 for none
        First(stops) == IF stops = {} THEN 0 ELSE CHOOSE i \in stops : \A j \in stops : i <= j
        \* "error" in r
        HasError(r) == \E i \in 1..Len(PyIter(r)) : PyIter(r)[i] = JStr(<<"e", "r", "r", "o", "r">>)
        \* the second request, answering success when it goes through
        Second(method, path, http1) ==
            Out(IF Raises(env[2]) THEN Raised(env[2]) ELSE Obj1(JStr(<<"s", "u", "c", "c", "e", "s", "s">>), S(t.name)),
                Append(http1, Req(method, path)))
        \* jira_transition_issue: the loop over the transitions listed
        BadTransition(x, name) ==
            ~IsDict(x) \/ DictGet(x, K_name, V_empty).t # "str" \/ name.t # "str"
        IsTransition(x, name) ==
            /\ ~BadTransition(x, name)
            /\ StrLower(DictGet(x, K_name, V_empty).v) = StrLower(name.v)
        Chosen(items, first, name, http1) ==
            IF first # 0 /\ BadTransition(items[first], name)
            THEN Out(Fail("AttributeError"), http1)
            ELSE IF first = 0 \/ ~Truthy(DictGet(items[first], JStr(<<"i", "d">>), None))
            THEN Out(Obj1(JStr(<<"e", "r", "r", "o", "r">>), JStr(<<"T", "r", "a", "n", "s", "i", "t", "i", "o", "n", " ", "'">> \o PyStr(name) \o <<"'", " ", "n", "o", "t", " ", "f", "o", "u", "n", "d">>)), http1)
            ELSE Second("POST", "/rest/api/2/issue/{issue_key}/transitions", http1)
        Listed(items, name, http1) ==
            Chosen(items,
                   First({i \in 1..Len(items) :
                            BadTransition(items[i], name) \/ IsTransition(items[i], name)}),
                   name, http1)
        Transition(r1, http1) ==
            IF ~Iterable(r1) THEN Out(Fail("TypeError"), http1)
            ELSE IF HasError(r1) THEN Out(r1, http1)
            ELSE IF ~IsDict(r1) THEN Out(Fail("AttributeError"), http1)
            ELSE IF ~Iterable(DictGet(r1, JStr(<<"t", "r", "a", "n", "s", "i", "t", "i", "o", "n", "s">>), EmptyList))
            THEN Out(Fail("TypeError"), http1)
            ELSE Listed(PyIter(DictGet(r1, JStr(<<"t", "r", "a", "n", "s", "i", "t", "i", "o", "n", "s">>), EmptyList)),
                        DictGet(arguments, JStr(<<"t", "r", "a", "n", "s", "i", "t", "i", "o", "n", "_", "n", "a", "m", "e">>), V_empty), http1)
        \* jira_link_to_epic: the loop over the fields listed
        IsEpicLink(x) == IsDict(x) /\ DictGet(x, K_name, None) = JStr(<<"E", "p", "i", "c", " ", "L", "i", "n", "k">>)
        Linked(items, first, http1) ==
            IF first # 0 /\ ~IsDict(items[first]) THEN Out(Fail("AttributeError"), http1)
            ELSE IF first # 0 /\ ~HasKey(items[first], JStr(<<"i", "d">>)) THEN Out(Fail("KeyError"), http1)
            ELSE IF first = 0 \/ ~Truthy(DictGet(items[first], JStr(<<"i", "d">>), None))
            THEN Out(Obj1(JStr(<<"e", "r", "r", "o", "r">>), S("Epic Link field not found")), http1)
            ELSE IF ~Hashable(DictGet(items[first], JStr(<<"i", "d">>), None))
            THEN Out(Fail("TypeError"), http1)
            ELSE Second("PUT", "/rest/api/2/issue/{issue_key}", http1)
        LinkToEpic(o, http1) ==
            IF Raises(o) THEN Out(Raised(o), http1)
            ELSE IF o.body.t = "text" THEN Out(Fail("JSONDecodeError"), http1)
            ELSE IF ~Iterable(o.body) THEN Out(Fail("TypeError"), http1)
            ELSE Linked(PyIter(o.body),
                        First({i \in 1..Len(PyIter(o.body)) :
                                 ~IsDict(PyIter(o.body)[i]) \/ IsEpicLink(PyIter(o.body)[i])}),
                        http1)
        \* jira_clone_issue
        Cloned(o, http2) ==
            IF Raises(o) THEN Out(Raised(o), http2)
            ELSE IF o.body.t = "text" THEN Out(Fail("JSONDecodeError"), http2)
            ELSE IF ~IsDict(o.body) THEN Out(Fail("AttributeError"), http2)
            ELSE Out(Obj2(JStr(<<"s", "u", "c", "c", "e", "s", "s">>), S(t.name), JStr(<<"n", "e", "w", "_", "i", "s", "s", "u", "e">>), o.body), http2)
        CloneOf(fields, project_key, http1) ==
            IF ~IsDict(fields) THEN Out(Fail("AttributeError"), http1)
            ELSE IF ~Truthy(project_key) /\ ~IsDict(DictGet(fields, JStr(<<"p", "r", "o", "j", "e", "c", "t">>), EmptyDict))
            THEN Out(Fail("AttributeError"), http1)
            ELSE Cloned(env[2], Append(http1, Req("POST", "/rest/api/2/issue")))
        Clone(original, http1) ==
            IF ~Iterable(original) THEN Out(Fail("TypeError"), http1)
            ELSE IF HasError(original) THEN Out(original, http1)
            ELSE IF ~IsDict(original) THEN Out(Fail("AttributeError"), http1)
            ELSE CloneOf(DictGet(original, JStr(<<"f", "i", "e", "l", "d", "s">>), EmptyDict),
                         DictGet(arguments, JStr(<<"p", "r", "o", "j", "e", "c", "t", "_", "k", "e", "y">>), None), http1)
        \* jira_batch_create_issues
        Created(o, http1) ==
            IF Raises(o) THEN Out(Raised(o), http1)
            ELSE IF o.body.t = "text" THEN Out(Fail("JSONDecodeError"), http1)
            ELSE IF ~IsDict(o.body) THEN Out(Fail("AttributeError"), http1)
            ELSE IF ~Iterable(DictGet(o.body, JStr(<<"i", "s", "s", "u", "e", "s">>), EmptyList))
            THEN Out(Fail("TypeError"), http1)
            ELSE Out(Obj2(JStr(<<"s", "u", "c", "c", "e", "s", "s">>), S(t.name), JStr(<<"i", "s", "s", "u", "e", "s">>), o.body), http1)
        BatchCreateIssues(issues) ==
            IF ~Iterable(issues) THEN Out(Fail("TypeError"), <<>>)
            ELSE IF \E i \in 1..Len(PyIter(issues)) : ~IsDict(PyIter(issues)[i])
            THEN Out(Fail("AttributeError"), <<>>)
            ELSE Created(env[1], <<Req("POST", "/rest/api/2/issue/bulk")>>)
    IN IF t.kind = "transition"
       THEN Transition(PlainTool(get, arguments, env[1]), <<Req(get.method, get.path)>>)
       ELSE IF t.kind = "link_to_epic"
       THEN LinkToEpic(env[1], <<Req("GET", "/rest/api/2/field")>>)
       ELSE IF t.kind = "clone"
       THEN Clone(PlainTool(get, arguments, env[1]), <<Req(get.method, get.path)>>)
       ELSE BatchCreateIssues(DictGet(arguments, JStr(<<"i", "s", "s", "u", "e", "s">>), EmptyList))

\* the try block of a method that makes one request for each item of its
\* argument (jira_batch_create_versions, which calls jira_create_version, of
\* branch create, and jira_batch_get_changelogs), the request for item i
\* coming to env[i]: the dict returned and the requests made
BatchTool(t, create, arguments, env) ==
    LET versions == t.kind = "batch_create_versions"
        Raises(o) == o.kind = "exc" \/ (o.status >= 400 /\ o.status < 600)
        \* how item x went, its request coming to o: the exception name, or ""
        \* when it went through
        Error(x, o) ==
            IF o.kind = "exc" THEN "ConnectionError"
            ELSE IF Raises(o) THEN "HTTPError"
            ELSE IF o.body.t = "text" THEN "JSONDecodeError"
            ELSE IF versions THEN ""
            ELSE IF ~IsDict(o.body) THEN "AttributeError"
            ELSE IF ~Hashable(x) THEN "TypeError"
            ELSE ""
        Message(x, o) ==
            JStr((IF versions THEN <<"V", "e", "r", "s", "i", "o", "n", " ", "'">> \o PyStr(DictGet(x, K_name, None)) \o <<"'", ":", " ">>
                  ELSE <<"I", "s", "s", "u", "e", " ">> \o PyStr(x) \o <<":", " ">>)
                 \o <<Error(x, o)>>)
        RECURSIVE Changelogs(_, _, _)
        Changelogs(items, i, d) ==
            IF i > Len(items) THEN d
            ELSE Changelogs(items, i + 1,
                            IF Error(items[i], env[i]) = ""
                            THEN DictSet(d, items[i], DictGet(env[i].body, JStr(<<"c", "h", "a", "n", "g", "e", "l", "o", "g">>), EmptyDict))
                            ELSE d)
        Got(changelogs, errors, http) ==
            [result |-> Obj3(JStr(<<"c", "h", "a", "n", "g", "e", "l", "o", "g", "s">>), changelogs, JStr(<<"e", "r", "r", "o", "r", "s">>), errors,
                             JStr(<<"s", "u", "c", "c", "e", "s", "s">>), JStr(<<"R", "e", "t", "r", "i", "e", "v", "e", "d", " ", "c", "h", "a", "n", "g", "e", "l", "o", "g", "s", " ", "f", "o", "r", " ">>
                                              \o Digits(Len(changelogs.v)) \o <<" ", "i", "s", "s", "u", "e", "s">>)),
             http |-> http]
        Made(created, errors, http) ==
            [result |-> Obj3(JStr(<<"s", "u", "c", "c", "e", "s", "s">>), JStr(<<"C", "r", "e", "a", "t", "e", "d", " ">> \o Digits(Len(created)) \o <<" ", "v", "e", "r", "s", "i", "o", "n", "s">>),
                             JStr(<<"c", "r", "e", "a", "t", "e", "d">>), JArr(created), JStr(<<"e", "r", "r", "o", "r", "s">>), errors),
             http |-> http]
        \* the loop over the first n items
        Loop(items, n, req) ==
            IF n < Len(items)
            THEN [result |-> Obj1(JStr(<<"e", "r", "r", "o", "r">>), S("AttributeError")), http |-> [i \in 1..n |-> req]]
            ELSE IF versions
            THEN Made([k \in 1..Len(SelectSeq([i \in 1..n |-> i],
                                              LAMBDA i : Error(items[i], env[i]) = "")) |->
                         PlainTool(create, EmptyDict,
                                   env[SelectSeq([i \in 1..n |-> i],
                                                 LAMBDA i : Error(items[i], env[i]) = "")[k]])],
                      JArr(SelectSeq([i \in 1..n |-> Message(items[i], env[i])],
                                     LAMBDA e : e.v[Len(e.v)] # "")),
                      [i \in 1..n |-> req])
            ELSE Got(Changelogs(items, 1, EmptyDict),
                     JArr(SelectSeq([i \in 1..n |-> Message(items[i], env[i])],
                                    LAMBDA e : e.v[Len(e.v)] # "")),
                     [i \in 1..n |-> req])
        \* the items before the first version that is not a dict, which ends
        \* the loop
        Whole(items) ==
            IF versions /\ \E i \in 1..Len(items) : ~IsDict(items[i])
            THEN (CHOOSE i \in 1..Len(items) :
                    ~IsDict(items[i]) /\ \A j \in 1..(i - 1) : IsDict(items[j])) - 1
            ELSE Len(items)
        Walk(arg, req) ==
            IF ~Iterable(arg) THEN [result |-> Obj1(JStr(<<"e", "r", "r", "o", "r">>), S("TypeError")), http |-> <<>>]
            ELSE Loop(PyIter(arg), Whole(PyIter(arg)), req)
    IN IF versions
       THEN Walk(DictGet(arguments, JStr(<<"v", "e", "r", "s", "i", "o", "n", "s">>), EmptyList),
                 [method |-> create.method, path |-> create.path])
       ELSE Walk(DictGet(arguments, JStr(<<"i", "s", "s", "u", "e", "_", "k", "e", "y", "s">>), EmptyList),
                 [method |-> "GET", path |-> "/rest/api/2/issue/{issue_key}?expand=changelog"])

\* execute_tool with methods that make their requests without asking is_ready
ExecuteTool_Unguarded(m, tool_name, arguments, env) ==
    LET Branch(name) == CHOOSE i \in 1..Len(Dispatch) : Dispatch[i].name = name
        Made(r) == [out |-> Return(r.result), http |-> r.http]
        Call(t, search, get, create) ==
            IF t.args /\ ~IsDict(arguments)
            THEN [out |-> Raise("AttributeError"), http |-> <<>>]
            ELSE IF t.kind \in {"transition", "link_to_epic", "clone", "batch_create_issues"}
            THEN Made(CompositeTool(t, get, arguments, env))
            ELSE IF t.kind \in {"batch_create_versions", "batch_get_changelogs"}
            THEN Made(BatchTool(t, create, arguments, env))
            ELSE IF t.kind = "search"
            THEN [out |-> Return(PlainTool(t, arguments, env[1])),
                  http |-> <<[method |-> search.method, path |-> search.path]>>]
            ELSE [out |-> Return(PlainTool(t, arguments, env[1])),
                  http |-> <<[method |-> t.method, path |-> t.path]>>]
        Found(branch) ==
            IF branch = {}
            THEN [out |-> Return(Obj1(JStr(<<"e", "r", "r", "o", "r">>),
                                      JStr(<<"T", "o", "o", "l", " ", "n", "o", "t", " ", "i", "m", "p", "l", "e", "m", "e", "n", "t", "e", "d", ":", " ">> \o PyStr(tool_name)))),
                  http |-> <<>>]
            ELSE Call(Dispatch[CHOOSE i \in branch : TRUE],
                      Dispatch[Branch("jira_search")],
                      Dispatch[Branch(IF tool_name = S("jira_clone_issue")
                                      THEN "jira_get_issue" ELSE "jira_get_transitions")],
                      Dispatch[Branch("jira_create_version")])
    IN Found({i \in 1..Len(Dispatch) : tool_name = S(Dispatch[i].name)})

\* execute_tool asking is_ready before it looks at the tool name
ExecuteTool_ReadyFirst(m, tool_name, arguments, env) ==
    LET Branch(name) == CHOOSE i \in 1..Len(Dispatch) : Dispatch[i].name = name
        Made(r) == [out |-> Return(r.result), http |-> r.http]
        Call(t, search, get, create) ==
            IF t.args /\ ~IsDict(arguments)
            THEN [out |-> Raise("AttributeError"), http |-> <<>>]
            ELSE IF ~IsReady(m)
            THEN [out |-> Return(Obj1(JStr(<<"e", "r", "r", "o", "r">>), S("Manager not initialized"))), http |-> <<>>]
            ELSE IF t.kind \in {"transition", "link_to_epic", "clone", "batch_create_issues"}
            THEN Made(CompositeTool(t, get, arguments, env))
            ELSE IF t.kind \in {"batch_create_versions", "batch_get_changelogs"}
            THEN Made(BatchTool(t, create, arguments, env))
            ELSE IF t.kind = "search"
            THEN [out |-> Return(PlainTool(t, arguments, env[1])),
                  http |-> <<[method |-> search.method, path |-> search.path]>>]
            ELSE [out |-> Return(PlainTool(t, arguments, env[1])),
                  http |-> <<[method |-> t.method, path |-> t.path]>>]
        Found(branch) ==
            IF branch = {}
            THEN [out |-> Return(Obj1(JStr(<<"e", "r", "r", "o", "r">>),
                                      JStr(<<"T", "o", "o", "l", " ", "n", "o", "t", " ", "i", "m", "p", "l", "e", "m", "e", "n", "t", "e", "d", ":", " ">> \o PyStr(tool_name)))),
                  http |-> <<>>]
            ELSE Call(Dispatch[CHOOSE i \in branch : TRUE],
                      Dispatch[Branch("jira_search")],
                      Dispatch[Branch(IF tool_name = S("jira_clone_issue")
                                      THEN "jira_get_issue" ELSE "jira_get_transitions")],
                      Dispatch[Branch("jira_create_version")])
    IN IF ~IsReady(m)
       THEN [out |-> Return(Obj1(JStr(<<"e", "r", "r", "o", "r">>), S("Manager not initialized"))), http |-> <<>>]
       ELSE Found({i \in 1..Len(Dispatch) : tool_name = S(Dispatch[i].name)})

\* execute_tool(tool_name, arguments) on manager m, request i of the call
\* coming to env[i]: what the call comes to (a dict returned, or an exception
\* raised) and the HTTP requests it made, in order
ExecuteTool(m, tool_name, arguments, env) ==
    LET Branch(name) == CHOOSE i \in 1..Len(Dispatch) : Dispatch[i].name = name
        Made(r) == [out |-> Return(r.result), http |-> r.http]
        Call(t, search, get, create) ==
            IF t.args /\ ~IsDict(arguments)
            THEN [out |-> Raise("AttributeError"), http |-> <<>>]
            ELSE IF ~IsReady(m)
            THEN [out |-> Return(Obj1(JStr(<<"e", "r", "r", "o", "r">>), S("Manager not initialized"))), http |-> <<>>]
            ELSE IF t.kind \in {"transition", "link_to_epic", "clone", "batch_create_issues"}
            THEN Made(CompositeTool(t, get, arguments, env))
            ELSE IF t.kind \in {"batch_create_versions", "batch_get_changelogs"}
            THEN Made(BatchTool(t, create, arguments, env))
            ELSE IF t.kind = "search"
            THEN [out |-> Return(PlainTool(t, arguments, env[1])),
                  http |-> <<[method |-> search.method, path |-> search.path]>>]
            ELSE [out |-> Return(PlainTool(t, arguments, env[1])),
                  http |-> <<[method |-> t.method, path |-> t.path]>>]
        Found(branch) ==
            IF branch = {}
            THEN [out |-> Return(Obj1(JStr(<<"e", "r", "r", "o", "r">>),
                                      JStr(<<"T", "o", "o", "l", " ", "n", "o", "t", " ", "i", "m", "p", "l", "e", "m", "e", "n", "t", "e", "d", ":", " ">> \o PyStr(tool_name)))),
                  http |-> <<>>]
            ELSE Call(Dispatch[CHOOSE i \in branch : TRUE],
                      Dispatch[Branch("jira_search")],
                      Dispatch[Branch(IF tool_name = S("jira_clone_issue")
                                      THEN "jira_get_issue" ELSE "jira_get_transitions")],
                      Dispatch[Branch("jira_create_version")])
    IN Found({i \in 1..Len(Dispatch) : tool_name = S(Dispatch[i].name)})

----------------------------------------------------------------------------
(* The JSON-RPC servers                                                    *)

RECURSIVE JsonDumps(_, _)
\* json.dumps(x, indent=2), as the characters written; x nested level deep
JsonDumps(x, level) ==
    LET pad == Rep(" ", 2 * (level + 1))
        Esc(c) == IF c = "\"" THEN <<"\\", "\"">>
                  ELSE IF c = "\\" THEN <<"\\", "\\">>
                  ELSE IF c = "\n" THEN <<"\\", "n">>
                  ELSE <<c>>
        RECURSIVE Quoted(_, _)
        Quoted(s, i) == IF i > Len(s) THEN <<"\"">> ELSE Esc(s[i]) \o Quoted(s, i + 1)
        Key(k) == CASE k.t = "str" -> k.v
                    [] k.t = "num" -> Digits(k.v)
                    [] k.t = "bool" -> IF k.v THEN <<"t", "r", "u", "e">> ELSE <<"f", "a", "l", "s", "e">>
                    [] k.t = "null" -> <<"n", "u", "l", "l">>
        Member(i) ==
            pad \o (IF x.t = "obj"
                    THEN <<"\"">> \o Quoted(Key(x.v[i][1]), 1) \o <<":", " ">>
                         \o JsonDumps(x.v[i][2], level + 1)
                    ELSE JsonDumps(x.v[i], level + 1))
        RECURSIVE Members(_)
        Members(i) == IF i = Len(x.v) THEN Member(i)
                      ELSE Member(i) \o <<",", "\n">> \o Members(i + 1)
    IN CASE x.t = "null" -> <<"n", "u", "l", "l">>
         [] x.t = "bool" -> IF x.v THEN <<"t", "r", "u", "e">> ELSE <<"f", "a", "l", "s", "e">>
         [] x.t = "num" -> Digits(x.v)
         [] x.t = "str" -> <<"\"">> \o Quoted(x.v, 1)
         [] x.t = "arr" -> IF x.v = <<>> THEN <<"[", "]">>
                           ELSE <<"[", "\n">> \o Members(1) \o <<"\n">>
                                \o Rep(" ", 2 * level) \o <<"]">>
         [] x.t = "obj" -> IF x.v = <<>> THEN <<"{", "}">>
                           ELSE <<"{", "\n">> \o Members(1) \o <<"\n">>
                                \o Rep(" ", 2 * level) \o <<"}">>

\* an initialize_manager that is content with the configuration: it loads no
\* cookies and does not test the connection
InitializeManager_ConfigOnly(m, config_file, cookie_file, o) ==
    [m |-> LoadConfig(m, config_file).m, ok |-> LoadConfig(m, config_file).ok, http |-> <<>>]

\* ExtendedMCPServer.initialize_manager on manager m, the config and cookie
\* files holding these documents and the request of the connection test coming
\* to outcome o: the manager afterwards, the value returned, the requests made
InitializeManager(m, config_file, cookie_file, o) ==
    LET Tested(m2, user_profile) ==
            [m |-> m2,
             ok |-> IsDict(user_profile.out.val) /\ ~HasKey(user_profile.out.val, JStr(<<"e", "r", "r", "o", "r">>)),
             http |-> user_profile.http]
        Cookies(k) ==
            IF ~k.ok THEN [m |-> k.m, ok |-> FALSE, http |-> <<>>]
            ELSE Tested(k.m, ExecuteTool(k.m, S("jira_get_user_profile"), EmptyDict, <<o>>))
        Config(c) ==
            IF ~c.ok THEN [m |-> c.m, ok |-> FALSE, http |-> <<>>]
            ELSE Cookies(LoadCookies(c.m, cookie_file))
    IN Config(LoadConfig(m, config_file))

\* a server that makes a new session, without headers, for every request
HandleRequest_NewSession(m, init, request, config_file, cookie_file, env) ==
    [m |-> [m EXCEPT !.headers = EmptyDict], initialized |-> init, http |-> <<>>,
     out |-> Return(EmptyDict)]

\* a server that refuses every request until it is initialized, the way
\* handle_call_tool refuses a tool call
HandleRequest_Gated(m, init, request, config_file, cookie_file, env) ==
    [m |-> m, initialized |-> init, http |-> <<>>,
     out |-> Return(Obj1(JStr(<<"e", "r", "r", "o", "r">>),
                         Obj2(JStr(<<"c", "o", "d", "e">>), JNum(0 - 1),
                              JStr(<<"m", "e", "s", "s", "a", "g", "e">>), S("Server not initialized"))))]

\* ExtendedMCPServer.handle_request(request) on a server of manager m and flag
\* initialized, with the files and request outcomes it meets: the server
\* afterwards, what the call comes to (the response returned, or an exception
\* raised) and the requests made. tools/list answers the names of manager.tools
HandleRequest(m, init, request, config_file, cookie_file, env) ==
    LET Response(member, x) ==
            Obj3(JStr(<<"j", "s", "o", "n", "r", "p", "c">>), S("2.0"), JStr(<<"i", "d">>), DictGet(request, JStr(<<"i", "d">>), JNum(1)), member, x)
        RpcError(code, message) ==
            Response(JStr(<<"e", "r", "r", "o", "r">>), Obj2(JStr(<<"c", "o", "d", "e">>), JNum(code), JStr(<<"m", "e", "s", "s", "a", "g", "e">>), message))
        Same(x) == [m |-> m, initialized |-> init, out |-> x, http |-> <<>>]
        Started(started) ==
            [m |-> started.m, initialized |-> started.ok, http |-> started.http,
             out |-> Return(Response(JStr(<<"r", "e", "s", "u", "l", "t">>),
                        Obj3(JStr(<<"p", "r", "o", "t", "o", "c", "o", "l", "V", "e", "r", "s", "i", "o", "n">>), S("2024-11-05"),
                             JStr(<<"c", "a", "p", "a", "b", "i", "l", "i", "t", "i", "e", "s">>),
                             Obj3(JStr(<<"t", "o", "o", "l", "s">>), Obj1(JStr(<<"l", "i", "s", "t", "C", "h", "a", "n", "g", "e", "d">>), JBool(FALSE)),
                                  JStr(<<"r", "e", "s", "o", "u", "r", "c", "e", "s">>), Obj2(JStr(<<"s", "u", "b", "s", "c", "r", "i", "b", "e">>), JBool(FALSE),
                                                    JStr(<<"l", "i", "s", "t", "C", "h", "a", "n", "g", "e", "d">>), JBool(FALSE)),
                                  JStr(<<"p", "r", "o", "m", "p", "t", "s">>), Obj1(JStr(<<"l", "i", "s", "t", "C", "h", "a", "n", "g", "e", "d">>), JBool(FALSE))),
                             JStr(<<"s", "e", "r", "v", "e", "r", "I", "n", "f", "o">>), Obj2(K_name, S("mcp-atlassian-extended"),
                                                JStr(<<"v", "e", "r", "s", "i", "o", "n">>), S("1.5.0")))))]
        Called(called) ==
            [m |-> m, initialized |-> init, http |-> called.http,
             out |-> Return(
                IF called.out.kind = "raise"
                THEN RpcError(0 - 1, JStr(<<"E", "r", "r", "o", "r", ":", " ">> \o <<called.out.exc>>))
                ELSE Response(JStr(<<"r", "e", "s", "u", "l", "t">>),
                        Obj1(JStr(<<"c", "o", "n", "t", "e", "n", "t">>), JArr(<<
                           Obj2(JStr(<<"t", "y", "p", "e">>), S("text"),
                                JStr(<<"t", "e", "x", "t">>), JStr(JsonDumps(called.out.val, 0)))>>))))]
        CallTool(params) ==
            IF ~init THEN Same(Return(RpcError(0 - 1, S("Server not initialized"))))
            ELSE IF ~IsDict(params) THEN Same(Raise("AttributeError"))
            ELSE Called(ExecuteTool(m, DictGet(params, K_name, None),
                                    DictGet(params, JStr(<<"a", "r", "g", "u", "m", "e", "n", "t", "s">>), EmptyDict), env))
        Method(method) ==
            IF method = JStr(<<"i", "n", "i", "t", "i", "a", "l", "i", "z", "e">>)
            THEN Started(InitializeManager(m, config_file, cookie_file, env[1]))
            ELSE IF method = JStr(<<"t", "o", "o", "l", "s", "/", "l", "i", "s", "t">>)
            THEN Same(Return(Response(JStr(<<"r", "e", "s", "u", "l", "t">>),
                      Obj1(JStr(<<"t", "o", "o", "l", "s">>), JArr([i \in 1..Len(Tools) |->
                                            Obj1(K_name, S(Tools[i]))])))))
            ELSE IF method = JStr(<<"t", "o", "o", "l", "s", "/", "c", "a", "l", "l">>)
            THEN CallTool(DictGet(request, JStr(<<"p", "a", "r", "a", "m", "s">>), EmptyDict))
            ELSE IF method = JStr(<<"r", "e", "s", "o", "u", "r", "c", "e", "s", "/", "l", "i", "s", "t">>)
            THEN Same(Return(Response(JStr(<<"r", "e", "s", "u", "l", "t">>), Obj1(JStr(<<"r", "e", "s", "o", "u", "r", "c", "e", "s">>), EmptyList))))
            ELSE IF method = JStr(<<"p", "r", "o", "m", "p", "t", "s", "/", "l", "i", "s", "t">>)
            THEN Same(Return(Response(JStr(<<"r", "e", "s", "u", "l", "t">>), Obj1(JStr(<<"p", "r", "o", "m", "p", "t", "s">>), EmptyList))))
            ELSE Same(Return(RpcError(0 - 32601,
                                      JStr(<<"M", "e", "t", "h", "o", "d", " ", "n", "o", "t", " ", "f", "o", "u", "n", "d", ":", " ">> \o PyStr(method)))))
    IN IF ~IsDict(request) THEN Same(Raise("AttributeError"))
       ELSE Method(DictGet(request, JStr(<<"m", "e", "t", "h", "o", "d">>), None))

\* ConventionBasedManager(), the config file and the cookie file that the
\* conventions find holding these documents (NoFile: none found): the manager
\* constructed, or the exception raised
ConventionBasedManager(config_file, cookie_file) ==
    LET default_headers(jira_url) ==
            << <<JStr(<<"U", "s", "e", "r", "-", "A", "g", "e", "n", "t">>), S("Mozilla/5.0 (Macintosh; Intel Mac OS X 10_15_7) AppleWebKit/537.36 (KHTML, like Gecko) Chrome/120.0.0.0 Safari/537.36")>>,
               <<JStr(<<"A", "c", "c", "e", "p", "t">>), S("application/json")>>,
               <<JStr(<<"X", "-", "A", "t", "l", "a", "s", "s", "i", "a", "n", "-", "T", "o", "k", "e", "n">>), S("no-check")>>,
               <<JStr(<<"R", "e", "f", "e", "r", "e", "r">>), JStr(jira_url.v \o <<"/">>)>> >>
        RECURSIVE Defaults(_, _, _)
        \* default i.. of d set on headers h that do not have it
        Defaults(h, d, i) ==
            IF i > Len(d) THEN h
            ELSE Defaults(IF \E j \in 1..Len(h.v) : StrLower(h.v[j][1].v) = StrLower(d[i][1].v)
                          THEN h
                          ELSE HeaderSet(h, d[i][1], d[i][2]),
                          d, i + 1)
        \* _setup_session
        Session(jira_url, cookies, custom) ==
            IF ~custom.ok THEN Raise("TypeError")
            ELSE Return([jira_url |-> jira_url,
                         cookies |-> CookiesSet(EmptyDict, cookies, 1),
                         headers |-> Defaults(custom.h, default_headers(jira_url), 1)])
        Setup(jira_url, cookies, headers) ==
            IF ~Iterable(cookies) THEN Raise("ValueError")
            ELSE IF ~IsDict(cookies) THEN Raise("AttributeError")
            ELSE Session(jira_url, cookies,
                         IF Truthy(headers) THEN HeadersUpdate(SessionHeaders, headers, 1)
                         ELSE [h |-> SessionHeaders, ok |-> TRUE])
        \* _discover_cookie_file and _load_cookies
        Cookies(jira_url) ==
            IF cookie_file = NoFile THEN Raise("FileNotFoundError")
            ELSE IF ~IsDict(cookie_file) THEN Raise("ValueError")
            ELSE IF HasKey(cookie_file, K_timestamp)
                    /\ ~Subtractable(DictGet(cookie_file, K_timestamp, None))
            THEN Raise("ValueError")
            ELSE Setup(jira_url,
                       IF HasKey(cookie_file, K_cookies) THEN DictGet(cookie_file, K_cookies, None)
                       ELSE IF HasKey(cookie_file, JStr(<<"a", "u", "t", "h">>)) THEN DictGet(cookie_file, JStr(<<"a", "u", "t", "h">>), None)
                       ELSE IF HasKey(cookie_file, JStr(<<"s", "e", "s", "s", "i", "o", "n">>))
                       THEN DictGet(cookie_file, JStr(<<"s", "e", "s", "s", "i", "o", "n">>), None)
                       ELSE cookie_file,
                       DictGet(config_file, K_headers, EmptyDict))
        \* _load_config
        Url(found) ==
            IF ~Truthy(found) THEN Raise("ValueError")
            ELSE IF found.t # "str" THEN Raise("ValueError")
            ELSE Cookies(JStr(RStrip(found.v, "/")))
        Or(a, b) == IF Truthy(a) THEN a ELSE b
        Get(k) == DictGet(config_file, k, None)
    IN IF config_file = NoFile THEN Raise("FileNotFoundError")
       ELSE IF ~IsDict(config_file) THEN Raise("ValueError")
       ELSE Url(Or(Get(JStr(<<"j", "i", "r", "a", "_", "u", "r", "l">>)), Or(Get(JStr(<<"u", "r", "l">>)), Or(Get(JStr(<<"b", "a", "s", "e", "_", "u", "r", "l">>)), Get(JStr(<<"s", "e", "r", "v", "e", "r", "_", "u", "r", "l">>))))))

\* SimpleMCPServer.handle_request(request) on a server of manager m (None
\* before one is constructed) and flag initialized; the cookie file named by
\* the environment is the one the conventions find
SimpleHandleRequest(m, init, request, config_file, cookie_file, env) ==
    LET Response(member, x) ==
            Obj3(JStr(<<"j", "s", "o", "n", "r", "p", "c">>), S("2.0"), JStr(<<"i", "d">>), DictGet(request, JStr(<<"i", "d">>), None), member, x)
        RpcError(code, message) ==
            Response(JStr(<<"e", "r", "r", "o", "r">>), Obj2(JStr(<<"c", "o", "d", "e">>), JNum(code), JStr(<<"m", "e", "s", "s", "a", "g", "e">>), message))
        Same(x) == [m |-> m, initialized |-> init, out |-> x, http |-> <<>>]
        answer == Return(Response(JStr(<<"r", "e", "s", "u", "l", "t">>),
                     Obj3(JStr(<<"p", "r", "o", "t", "o", "c", "o", "l", "V", "e", "r", "s", "i", "o", "n">>), S("2024-11-05"),
                          JStr(<<"c", "a", "p", "a", "b", "i", "l", "i", "t", "i", "e", "s">>), Obj2(JStr(<<"t", "o", "o", "l", "s">>), EmptyDict, JStr(<<"r", "e", "s", "o", "u", "r", "c", "e", "s">>), EmptyDict),
                          JStr(<<"s", "e", "r", "v", "e", "r", "I", "n", "f", "o">>), Obj2(K_name, S("mcp-atlassian-cookie"),
                                             JStr(<<"v", "e", "r", "s", "i", "o", "n">>), S("1.0.0")))))
        \* test_connection, with the settings of the configuration
        Connected(settings, o) ==
            /\ IsDict(settings)
            /\ o.kind = "resp" /\ o.status = 200
            /\ o.body.t # "text" /\ IsDict(o.body)
        Tested(built, settings) ==
            [m |-> built, initialized |-> init \/ Connected(settings, env[1]), out |-> answer,
             http |-> IF IsDict(settings)
                      THEN <<[method |-> "GET", path |-> "/rest/api/2/myself"]>>
                      ELSE <<>>]
        \* initialize_manager
        Built(built) ==
            IF cookie_file = NoFile \/ built.kind = "raise" THEN Same(answer)
            ELSE Tested(built.val, DictGet(config_file, JStr(<<"s", "e", "t", "t", "i", "n", "g", "s">>), EmptyDict))
        CallTool(params) ==
            IF ~init \/ m = None
            THEN Same(Return(RpcError(0 - 1, S("Server not initialized"))))
            ELSE IF ~IsDict(params) THEN Same(Raise("AttributeError"))
            ELSE Same(Return(RpcError(0 - 1,
                        JStr(<<"E", "r", "r", "o", "r", " ", "e", "x", "e", "c", "u", "t", "i", "n", "g", " ">> \o PyStr(DictGet(params, K_name, None))
                             \o <<":", " ">> \o <<"AttributeError">>))))
        Method(method) ==
            IF method = JStr(<<"i", "n", "i", "t", "i", "a", "l", "i", "z", "e">>)
            THEN Built(ConventionBasedManager(config_file, cookie_file))
            ELSE IF method = JStr(<<"t", "o", "o", "l", "s", "/", "l", "i", "s", "t">>)
            THEN Same(Return(Response(JStr(<<"r", "e", "s", "u", "l", "t">>), Obj1(JStr(<<"t", "o", "o", "l", "s">>), EmptyList))))
            ELSE IF method = JStr(<<"t", "o", "o", "l", "s", "/", "c", "a", "l", "l">>)
            THEN CallTool(DictGet(request, JStr(<<"p", "a", "r", "a", "m", "s">>), EmptyDict))
            ELSE Same(Return(RpcError(0 - 32601,
                                      JStr(<<"M", "e", "t", "h", "o", "d", " ", "n", "o", "t", " ", "f", "o", "u", "n", "d", ":", " ">> \o PyStr(method)))))
    IN IF ~IsDict(request) THEN Same(Raise("AttributeError"))
       ELSE Method(DictGet(request, JStr(<<"m", "e", "t", "h", "o", "d">>), None))

\* JiraClient._load_cookies_to_session for a configuration of this url that
\* names a cookie file holding this document (NoFile: no such file) on a new
\* session: config.url afterwards, and the session made or the exception raised
LoadCookiesToSession(url, cookie_file) ==
    LET Browser(h, url1) ==
            IF Truthy(url1)
            THEN HeaderSet(h, JStr(<<"R", "e", "f", "e", "r", "e", "r">>), JStr(RStrip(url1.v, "/") \o <<"/", "s", "e", "c", "u", "r", "e", "/", "D", "a", "s", "h", "b", "o", "a", "r", "d", ".", "j", "s", "p", "a">>))
            ELSE h
        Loaded(cookies, url1) ==
            IF ~IsDict(cookies) THEN [url |-> url1, out |-> Raise("ValueError")]
            ELSE IF Truthy(url1) /\ url1.t # "str" THEN [url |-> url1, out |-> Raise("ValueError")]
            ELSE [url |-> url1,
                  out |-> Return([cookies |-> CookiesSet(EmptyDict, cookies, 1),
                                  headers |-> Browser(
                                     HeadersUpdate(SessionHeaders,
                                                   JObj(SubSeq(BrowserHeaders(None).v, 1, 15)),
                                                   1).h,
                                     url1)])]
    IN IF cookie_file = NoFile THEN [url |-> url, out |-> Raise("ValueError")]
       ELSE IF IsDict(cookie_file) /\ HasKey(cookie_file, K_cookies)
       THEN Loaded(DictGet(cookie_file, K_cookies, None),
                   IF ~Truthy(url) /\ HasKey(cookie_file, JStr(<<"j", "i", "r", "a", "_", "u", "r", "l">>))
                   THEN DictGet(cookie_file, JStr(<<"j", "i", "r", "a", "_", "u", "r", "l">>), None)
                   ELSE url)
       ELSE IF IsDict(cookie_file) THEN Loaded(cookie_file, url)
       ELSE Loaded(EmptyDict, url)

----------------------------------------------------------------------------
(* The files, calls and requests the managers and servers meet             *)

\* the outcomes of the requests one call of tool tool_name with these
\* arguments can make: one request, two for a tool that calls another or makes
\* a second request, one for each item for a tool that walks a list
Envs(tool_name, arguments) ==
    LET branch == {i \in 1..Len(Dispatch) : tool_name = S(Dispatch[i].name)}
        kind == Dispatch[CHOOSE i \in branch : TRUE].kind
        list == IF ~IsDict(arguments) THEN EmptyList
                ELSE IF kind = "batch_create_versions"
                THEN DictGet(arguments, JStr(<<"v", "e", "r", "s", "i", "o", "n", "s">>), EmptyList)
                ELSE DictGet(arguments, JStr(<<"i", "s", "s", "u", "e", "_", "k", "e", "y", "s">>), EmptyList)
    IN IF branch = {} THEN {<<>>}
       ELSE IF kind \in {"transition", "link_to_epic", "clone"} THEN [1..2 -> Outcomes]
       ELSE IF kind \in {"batch_create_versions", "batch_get_changelogs"}
       THEN [1..(IF Iterable(list) THEN Len(list.v) ELSE 0) -> Outcomes]
       ELSE [1..1 -> Outcomes]

\* what the configuration file may hold (NoFile: there is none)
ConfigFiles ==
    { NoFile, EmptyList,
      Obj2(JStr(<<"j", "i", "r", "a", "_", "u", "r", "l">>), JStr(<<"h", ":", "/", "/", "j", "/">>), K_headers, Obj2(JStr(<<"U", "s", "e", "r", "-", "A", "g", "e", "n", "t">>), S("custom"), JStr(<<"x", "-", "a", "p", "i">>), S("1"))),
      Obj1(JStr(<<"u", "r", "l">>), JStr(<<"h", ":", "/", "/", "u">>)),
      Obj2(JStr(<<"j", "i", "r", "a", "_", "u", "r", "l">>), V_empty, JStr(<<"b", "a", "s", "e", "_", "u", "r", "l">>), JStr(<<"h", ":", "/", "/", "b", "/">>)) }

\* what the cookie file may hold
CookieFiles ==
    { NoFile,
      Obj2(K_cookies, Obj2(S("JSESSIONID"), S("abc"), S("old"), None), JStr(<<"j", "i", "r", "a", "_", "u", "r", "l">>), JStr(<<"h", ":", "/", "/", "c", "/">>)),
      Obj1(K_cookies, EmptyDict),
      Obj1(K_cookies, JArr(<<S("JSESSIONID")>>)),
      Obj1(S("JSESSIONID"), S("abc")) }

\* the tool names and argument sets of the calls made
ToolNames == {S(Dispatch[i].name) : i \in 1..Len(Dispatch)} \cup {S("jira_no_such_tool"), None}
ArgumentSets ==
    { EmptyDict, EmptyList,
      JObj(<< <<JStr(<<"i", "s", "s", "u", "e", "_", "k", "e", "y">>), S("A-1")>>, <<JStr(<<"t", "r", "a", "n", "s", "i", "t", "i", "o", "n", "_", "n", "a", "m", "e">>), JStr(<<"d", "o", "n", "e">>)>>,
              <<JStr(<<"q", "u", "e", "r", "y">>), JStr(<<"e", "p", "i", "c">>)>>, <<JStr(<<"p", "r", "o", "j", "e", "c", "t", "_", "k", "e", "y">>), S("P")>>,
              <<JStr(<<"i", "s", "s", "u", "e", "s">>), JArr(<<Obj1(JStr(<<"s", "u", "m", "m", "a", "r", "y">>), S("s"))>>)>>,
              <<JStr(<<"v", "e", "r", "s", "i", "o", "n", "s">>), JArr(<<Obj1(K_name, S("v1")), Obj1(K_name, S("v2"))>>)>>,
              <<JStr(<<"i", "s", "s", "u", "e", "_", "k", "e", "y", "s">>), JArr(<<S("A-1"), S("A-2")>>)>> >>),
      JObj(<< <<JStr(<<"t", "r", "a", "n", "s", "i", "t", "i", "o", "n", "_", "n", "a", "m", "e">>), JNum(5)>>, <<JStr(<<"q", "u", "e", "r", "y">>), JNum(5)>>,
              <<JStr(<<"i", "s", "s", "u", "e", "s">>), JNum(5)>>,
              <<JStr(<<"v", "e", "r", "s", "i", "o", "n", "s">>), JArr(<<Obj1(K_name, S("v1")), JNum(5)>>)>>,
              <<JStr(<<"i", "s", "s", "u", "e", "_", "k", "e", "y", "s">>), JArr(<<S("A-1"), S("A-1")>>)>> >>) }

\* the JSON-RPC requests read from standard input; the tools called are the
\* first of each shape of method, a name that is no tool, and no name
Requests ==
    LET Request(method, params) ==
            JObj(<< <<JStr(<<"j", "s", "o", "n", "r", "p", "c">>), S("2.0")>>, <<JStr(<<"i", "d">>), JNum(7)>>, <<JStr(<<"m", "e", "t", "h", "o", "d">>), method>>,
                    <<JStr(<<"p", "a", "r", "a", "m", "s">>), params>> >>)
        called == {S(Dispatch[i].name) : i \in { i \in 1..Len(Dispatch) :
                     \A j \in 1..(i - 1) : Dispatch[j].kind # Dispatch[i].kind }}
                  \cup {S("jira_no_such_tool"), None}
    IN { Request(method, EmptyDict) :
           method \in {JStr(<<"i", "n", "i", "t", "i", "a", "l", "i", "z", "e">>), JStr(<<"t", "o", "o", "l", "s", "/", "l", "i", "s", "t">>), JStr(<<"r", "e", "s", "o", "u", "r", "c", "e", "s", "/", "l", "i", "s", "t">>), JStr(<<"p", "r", "o", "m", "p", "t", "s", "/", "l", "i", "s", "t">>),
                       JStr(<<"t", "o", "o", "l", "s", "/", "c", "a", "l", "l">>), JStr(<<"p", "i", "n", "g">>), None} }
       \cup { Request(JStr(<<"t", "o", "o", "l", "s", "/", "c", "a", "l", "l">>), Obj2(K_name, tool_name, JStr(<<"a", "r", "g", "u", "m", "e", "n", "t", "s">>), arguments)) :
                tool_name \in called, arguments \in ArgumentSets }
       \cup { Request(JStr(<<"t", "o", "o", "l", "s", "/", "c", "a", "l", "l">>), EmptyList),
              Obj1(JStr(<<"m", "e", "t", "h", "o", "d">>), JStr(<<"i", "n", "i", "t", "i", "a", "l", "i", "z", "e">>)), Obj1(JStr(<<"m", "e", "t", "h", "o", "d">>), JStr(<<"t", "o", "o", "l", "s", "/", "c", "a", "l", "l">>)),
              Obj1(JStr(<<"i", "d">>), JNum(7)), EmptyList }

----------------------------------------------------------------------------
(* The reader as a state machine                                           *)

Formats == {"cookie_manager", "direct_cookies", "browser_export", "har_file",
            "nested_cookies", "unknown"}

\* __init__ of a reader of the cookie file; the managers and servers are not
\* part of this specification and stay as constructed
Init ==
    /\ data = None
    /\ format_type = "None"
    /\ pc = "constructed"
    /\ ret = [op |-> "init"]
    /\ file_path = InputFile
    /\ output_file = NoFile
    /\ manager = NewManager
    /\ initialized = FALSE
    /\ simple = None
    /\ out = [op |-> "idle"]

\* the documents read_file can find at self.file_path: the cookie file holds
\* any document at the first read and has been emptied at a later one; the
\* output file holds what was saved. A caller that has saved (pc = "saved")
\* is done with its reader
Readable ==
    IF pc = "saved" THEN {}
    ELSE IF file_path = InputFile
    THEN IF pc = "constructed" THEN Docs ELSE {EmptyDict, EmptyList, JNull}
    ELSE IF output_file = NoFile THEN {} ELSE {JsonLoad(output_file)}

\* read_file, the file holding document d
ReadFile(d) ==
    /\ d \in Readable
    /\ data' = d
    /\ pc' = "loaded"
    /\ ret' = [op |-> "read_file", ok |-> TRUE]
    /\ UNCHANGED <<format_type, file_path, output_file, mvars>>

\* read_file, the file missing or not JSON
ReadFileFail ==
    /\ pc = "constructed"
    /\ pc' = "failed"
    /\ ret' = [op |-> "read_file", ok |-> FALSE]
    /\ UNCHANGED <<data, format_type, file_path, output_file, mvars>>

\* detect_format
DetectFormatCall ==
    /\ pc # "saved"
    /\ format_type' = FormatTypeAfter(data, format_type)
    /\ ret' = [op |-> "detect_format", fmt |-> DetectFormat(data)]
    /\ UNCHANGED <<data, pc, file_path, output_file, mvars>>

\* extract_cookies
ExtractCookiesCall ==
    /\ pc # "saved"
    /\ format_type' = FormatTypeAfter(data, format_type)
    /\ ret' = [op |-> "extract_cookies", out |-> ExtractCookies(data),
               deep |-> WalkDepth(data)]
    /\ UNCHANGED <<data, pc, file_path, output_file, mvars>>

\* the cookies a caller hands to save_as_cookie_manager_format: what
\* extract_cookies just returned (main), or a cookie set of its own on a
\* reader it has only constructed
SaveInputs ==
    IF ret.op = "extract_cookies" /\ ret.out.kind = "return" THEN {ret.out.val}
    ELSE IF pc = "constructed" /\ file_path = InputFile THEN CookieSets
    ELSE {}

\* save_as_cookie_manager_format(output_file, cookies) at clock reading now
SaveAsCookieManagerFormat(cookies, now) ==
    /\ cookies \in SaveInputs
    /\ output_file' = JsonDump(CookieData(cookies, now, file_path, format_type))
    /\ pc' = "saved"
    /\ ret' = [op |-> "save_as_cookie_manager_format", ok |-> TRUE, cookies |-> cookies]
    /\ UNCHANGED <<data, format_type, file_path, mvars>>

\* save_as_cookie_manager_format, the output file not writable
SaveFail ==
    /\ SaveInputs # {}
    /\ ret' = [op |-> "save_as_cookie_manager_format", ok |-> FALSE]
    /\ UNCHANGED <<data, format_type, pc, file_path, output_file, mvars>>

\* CookieJSONReader(output_file): __init__ of a second reader, of the file
\* that was written
NewReader ==
    /\ data' = None
    /\ format_type' = "None"
    /\ pc' = "constructed"
    /\ ret' = [op |-> "init"]
    /\ file_path' = OutputFile
    /\ UNCHANGED <<output_file, mvars>>

Next ==
    \/ \E d \in Readable : ReadFile(d)
    \/ ReadFileFail
    \/ DetectFormatCall
    \/ ExtractCookiesCall
    \/ \E cookies \in SaveInputs, now \in 1..MaxClock : SaveAsCookieManagerFormat(cookies, now)
    \/ SaveFail
    \/ NewReader

Spec == Init /\ [][Next]_vars

TypeOK ==
    /\ format_type \in Formats \cup {"None"}
    /\ pc \in {"constructed", "loaded", "failed", "saved"}
    /\ ret.op \in {"init", "read_file", "detect_format", "extract_cookies",
                  "save_as_cookie_manager_format"}
    /\ file_path \in {InputFile, OutputFile}

----------------------------------------------------------------------------
(* Properties of the reader                                                *)

Detected == ret.op = "detect_format"
Extracted == ret.op = "extract_cookies"

\* the types of the values of object d
ValueTypes(d) == {d.v[i][2].t : i \in 1..Len(d.v)}

\* the keys of object d
KeysOf(d) == {d.v[i][1] : i \in 1..Len(d.v)}

\* the six rules of the classification table, each on its own
Rule1(d) == d.t = "obj" /\ K_cookies \in KeysOf(d)
Rule2(d) == d.t = "obj" /\ ValueTypes(d) \subseteq {"str"}
Rule3(d) == /\ d.t = "arr" /\ d.v # <<>>
            /\ Head(d.v).t = "obj" /\ {K_name, K_value} \subseteq KeysOf(Head(d.v))
Rule4(d) == d.t = "obj" /\ K_log \in KeysOf(d)
Rule5(d) == d.t = "obj" /\ \E i \in 1..Len(d.v) :
                d.v[i][2].t = "obj" /\ K_cookies \in KeysOf(d.v[i][2])

\* the first rule of the table that document d matches
TableFormat(d) ==
    CASE Rule1(d) -> "cookie_manager"
      [] ~Rule1(d) /\ Rule2(d) -> "direct_cookies"
      [] ~Rule1(d) /\ ~Rule2(d) /\ Rule3(d) -> "browser_export"
      [] ~Rule1(d) /\ ~Rule2(d) /\ ~Rule3(d) /\ Rule4(d) -> "har_file"
      [] ~Rule1(d) /\ ~Rule2(d) /\ ~Rule3(d) /\ ~Rule4(d) /\ Rule5(d) -> "nested_cookies"
      [] OTHER -> "unknown"

\* C1 (as stated): detect_format returns, for every parsed document including
\* the empty object, the format of the first matching rule of the six-rule table.
C1_Original == Detected => ret.fmt = TableFormat(data)

\* C1 (amended): detect_format returns exactly one of the six formats, the one
\* of the first matching rule of the table, for every parsed document except
\* the empty object, which it classifies as unknown; a document with both a
\* "cookies" and a "log" key is cookie_manager.
C1_Amended ==
    Detected =>
        /\ ret.fmt \in Formats
        /\ ret.fmt = (IF data = EmptyDict THEN "unknown" ELSE TableFormat(data))

\* C1 witness: a document with both "cookies" and "log" has been classified.
C1_Witness ==
    /\ Detected
    /\ data.t = "obj" /\ {K_cookies, K_log} \subseteq KeysOf(data)
    /\ ret.fmt = "cookie_manager"

\* the entries of object o whose value is a string
StringEntries(o) == JObj(SelectSeq(o.v, LAMBDA e : e[2].t = "str"))

\* data is {"cookies": {...}}
CookiesShaped ==
    /\ data.t = "obj" /\ Len(data.v) = 1
    /\ data.v[1][1] = K_cookies /\ data.v[1][2].t = "obj"

\* C2: for every document {"cookies": {...}}, detect_format returns
\* cookie_manager and extract_cookies returns the inner object without its
\* entries whose value is not a string.
C2_Claim ==
    CookiesShaped =>
        /\ Detected => ret.fmt = "cookie_manager"
        /\ Extracted => ret.out = Return(StringEntries(data.v[1][2]))

\* data is a flat object, every value a string
FlatStrings == data.t = "obj" /\ ValueTypes(data) \subseteq {"str"}

\* C3 (as stated): for every flat string-valued object, the empty object and
\* objects with a key "cookies", "log", "name" or "value" included,
\* detect_format returns direct_cookies and extract_cookies returns a mapping
\* equal to the document.
C3_Original ==
    FlatStrings =>
        /\ Detected => ret.fmt = "direct_cookies"
        /\ Extracted => ret.out = Return(data)

\* C3 (amended): for every flat string-valued object without a key "cookies"
\* (keys "log", "name", "value" allowed), extract_cookies returns a mapping
\* equal to the document, and detect_format returns direct_cookies when the
\* object is not empty and unknown when it is; a flat string-valued object
\* with a key "cookies" is cookie_manager.
C3_Amended ==
    FlatStrings =>
        /\ Detected =>
             ret.fmt = (IF K_cookies \in KeysOf(data) THEN "cookie_manager"
                        ELSE IF data.v = <<>> THEN "unknown"
                        ELSE "direct_cookies")
        /\ (Extracted /\ K_cookies \notin KeysOf(data)) => ret.out = Return(data)

\* C3 witness: a flat object with keys "log" and "name" and an empty value
\* has been extracted as itself.
C3_Witness ==
    /\ Extracted /\ FlatStrings
    /\ {K_log, K_name} \subseteq KeysOf(data)
    /\ \E i \in 1..Len(data.v) : data.v[i][2] = V_empty
    /\ format_type = "direct_cookies"
    /\ ret.out = Return(data)

\* C4: whatever the document, the mapping extract_cookies returns holds only
\* entries whose value is a non-empty string.
C4_Claim ==
    (Extracted /\ ret.out.kind = "return") =>
        /\ ret.out.val.t = "obj"
        /\ \A i \in 1..Len(ret.out.val.v) :
               ret.out.val.v[i][2].t = "str" /\ ret.out.val.v[i][2].v # <<>>

\* C5: extract_cookies never raises on malformed sub-structures: for every
\* parsed document the call returns instead of propagating an exception.
C5_Claim == Extracted => ret.out.kind = "return"

----------------------------------------------------------------------------
(* Mappings described by the pairs written into them                       *)

RECURSIVE Flatten(_)
\* the concatenation of a sequence of sequences
Flatten(ss) == IF ss = <<>> THEN <<>> ELSE Head(ss) \o Flatten(Tail(ss))

\* the last pair of 'pairs' written under the key of pairs[i]
LastWrite(pairs, i) ==
    pairs[CHOOSE j \in 1..Len(pairs) :
              /\ PyKeyEq(pairs[j][1], pairs[i][1])
              /\ \A k \in (j + 1)..Len(pairs) : ~PyKeyEq(pairs[k][1], pairs[i][1])]

\* r is the mapping that writing the pairs <<name, value>> in order leaves:
\* one entry per name written, holding the value written last
LastWins(pairs, r) ==
    /\ r.t = "obj"
    /\ \A i, j \in 1..Len(r.v) : i # j => ~PyKeyEq(r.v[i][1], r.v[j][1])
    /\ \A j \in 1..Len(r.v) : \E i \in 1..Len(pairs) : PyKeyEq(pairs[i][1], r.v[j][1])
    /\ \A i \in 1..Len(pairs) : \E j \in 1..Len(r.v) :
           PyKeyEq(r.v[j][1], pairs[i][1]) /\ r.v[j][2] = LastWrite(pairs, i)[2]

\* x[k] for an object x that may lack k
Field(x, k, default) ==
    IF \E i \in 1..Len(x.v) : x.v[i][1] = k
    THEN x.v[CHOOSE i \in 1..Len(x.v) : x.v[i][1] = k][2]
    ELSE default

----------------------------------------------------------------------------
(* C6: browser exports                                                     *)

\* an array element that is an object with name and value present and truthy
C6_Qualifies(e) ==
    /\ e.t = "obj" /\ {K_name, K_value} \subseteq KeysOf(e)
    /\ Truthy(Field(e, K_name, None)) /\ Truthy(Field(e, K_value, None))

\* the name/value pairs of the qualifying elements, in array order
C6_Pairs(a) ==
    LET q == SelectSeq(a, C6_Qualifies)
    IN [i \in 1..Len(q) |-> <<Field(q[i], K_name, None), Field(q[i], K_value, None)>>]

\* C6: for a browser-export array, extraction adds name -> value for each
\* element that is an object with name and value present and truthy, in array
\* order (a later element overwrites an earlier one of the same name), and
\* skips every other element without error.
C6_Claim ==
    (Extracted /\ Rule3(data)) =>
        /\ ret.out.kind = "return"
        /\ LastWins(C6_Pairs(data.v), ret.out.val)

----------------------------------------------------------------------------
(* C7: HAR files.  The walk is described by the items it meets in document *)
(* order: the cookies of request.cookies and the headers of                *)
(* response.headers of each entry of log.entries.  An item is a pair to    *)
(* add, an item to skip, or a malformed item.                              *)

ItemBad == [k |-> "bad"]
ItemSkip == [k |-> "skip"]
ItemPair(n, x) == [k |-> "pair", p |-> <<n, x>>]

\* <<before, after>> the first character c of s, s holding one
C7_Cut(s, c) ==
    LET i == CHOOSE i \in 1..Len(s) : s[i] = c /\ c \notin {s[j] : j \in 1..(i - 1)}
    IN <<SubSeq(s, 1, i - 1), SubSeq(s, i + 1, Len(s))>>

\* the part of s before its first ';', all of s when it has none
C7_Segment(s) == IF ";" \in {s[j] : j \in 1..Len(s)} THEN C7_Cut(s, ";")[1] ELSE s

\* s without the whitespace at its two ends
C7_Trim(s) ==
    LET p == CHOOSE p \in (1..(Len(s) + 1)) \X (0..Len(s)) :
                 /\ p[1] <= p[2] + 1
                 /\ \A j \in 1..(p[1] - 1) : s[j] \in Whitespace
                 /\ \A j \in (p[2] + 1)..Len(s) : s[j] \in Whitespace
                 /\ p[1] <= p[2] => (s[p[1]] \notin Whitespace /\ s[p[2]] \notin Whitespace)
    IN SubSeq(s, p[1], p[2])

\* name equals set-cookie, whatever the case
C7_IsSetCookie(name) ==
    /\ Len(name) = Len(S_set_cookie)
    /\ \A i \in 1..Len(name) : LowerChar(name[i]) = S_set_cookie[i]

\* a request cookie; as C7 states it the pair is added when name and value
\* are present, as amended when both are truthy
C7_CookieItem(c, amended) ==
    LET name == Field(c, K_name, None)
        value == Field(c, K_value, None)
    IN IF c.t # "obj" THEN ItemBad
       ELSE IF amended
       THEN IF Truthy(name) /\ Truthy(value)
            THEN IF name.t \in {"arr", "obj"} THEN ItemBad ELSE ItemPair(name, value)
            ELSE ItemSkip
       ELSE IF {K_name, K_value} \subseteq KeysOf(c) THEN ItemPair(name, value) ELSE ItemSkip

\* a response header; as C7 states it the pair is the two sides of the first
\* '=' of the first segment, as amended the two sides without the whitespace
\* at their ends
C7_HeaderItem(h, amended) ==
    LET name == Field(h, K_name, V_empty)
        value == Field(h, K_value, V_empty)
        cut == C7_Cut(C7_Segment(value.v), "=")
    IN IF h.t # "obj" THEN ItemBad
       ELSE IF name.t # "str" THEN ItemBad
       ELSE IF ~C7_IsSetCookie(name.v) THEN ItemSkip
       ELSE IF value.t \in {"null", "bool", "num"} THEN ItemBad
       ELSE IF value.t = "arr"
            THEN IF \E i \in 1..Len(value.v) : value.v[i] = S("=") THEN ItemBad ELSE ItemSkip
       ELSE IF value.t = "obj"
            THEN IF S("=") \in KeysOf(value) THEN ItemBad ELSE ItemSkip
       ELSE IF "=" \notin {C7_Segment(value.v)[j] : j \in 1..Len(C7_Segment(value.v))}
            THEN ItemSkip
       ELSE IF amended
            THEN ItemPair(JStr(C7_Trim(cut[1])), JStr(C7_Trim(cut[2])))
            ELSE ItemPair(JStr(cut[1]), JStr(cut[2]))

\* the items of request.cookies (a value that is no list, dict or string
\* cannot be walked)
C7_CookieItems(x, amended) ==
    IF x.t \notin {"arr", "obj", "str"} THEN <<ItemBad>>
    ELSE [i \in 1..Len(PyIter(x)) |-> C7_CookieItem(PyIter(x)[i], amended)]

\* the items of response.headers
C7_HeaderItems(x, amended) ==
    IF x.t \notin {"arr", "obj", "str"} THEN <<ItemBad>>
    ELSE [i \in 1..Len(PyIter(x)) |-> C7_HeaderItem(PyIter(x)[i], amended)]

\* the items of one entry: its request cookies, then its response headers
C7_EntryItems(e, amended) ==
    LET request == Field(e, K_request, EmptyDict)
        response == Field(e, K_response, EmptyDict)
    IN IF e.t # "obj" THEN <<ItemBad>>
       ELSE (IF request.t # "obj" THEN <<ItemBad>>
             ELSE C7_CookieItems(Field(request, K_cookies, EmptyList), amended))
            \o
            (IF response.t # "obj" THEN <<ItemBad>>
             ELSE C7_HeaderItems(Field(response, K_headers, EmptyList), amended))

\* the items of HAR document d in document order
C7_Items(d, amended) ==
    LET log == Field(d, K_log, EmptyDict)
        entries == Field(log, K_entries, EmptyList)
    IN IF log.t # "obj" THEN <<ItemBad>>
       ELSE IF entries.t \notin {"arr", "obj", "str"} THEN <<ItemBad>>
       ELSE Flatten([i \in 1..Len(PyIter(entries)) |-> C7_EntryItems(PyIter(entries)[i], amended)])

\* the items in front of the first malformed one
C7_UpToBad(items) ==
    IF \E i \in 1..Len(items) : items[i] = ItemBad
    THEN SubSeq(items, 1, (CHOOSE i \in 1..Len(items) :
                               items[i] = ItemBad /\ \A j \in 1..(i - 1) : items[j] # ItemBad) - 1)
    ELSE items

\* the pairs among the items
C7_PairsOf(items) ==
    LET q == SelectSeq(items, LAMBDA it : it.k = "pair")
    IN [i \in 1..Len(q) |-> q[i].p]

\* d is a HAR document without a malformed item
C7_WellFormed(d) == \A i \in 1..Len(C7_Items(d, TRUE)) : C7_Items(d, TRUE)[i] # ItemBad

\* C7 (as stated): for a HAR document, extraction walks log.entries in order
\* and for each entry adds the request.cookies name/value pairs and, for every
\* response header named set-cookie whatever the case, the two sides of the
\* first '=' of the part of its value before the first ';'; a header whose
\* first segment has no '=' is skipped.
C7_Original ==
    (Extracted /\ TableFormat(data) = "har_file" /\ C7_WellFormed(data)) =>
        /\ ret.out.kind = "return"
        /\ LastWins(C7_PairsOf(C7_Items(data, FALSE)), ret.out.val)

\* C7 (amended): for a HAR document, extraction walks log.entries in order and
\* for each entry adds the request.cookies name/value pairs whose name and
\* value are both truthy and, for every response header named set-cookie
\* whatever the case, the two sides of the first '=' of the part of its value
\* before the first ';', each without the whitespace at its ends; a header
\* whose first segment has no '=' is skipped; the walk ends at the first
\* malformed item and keeps the pairs added before it.
C7_Amended ==
    (Extracted /\ TableFormat(data) = "har_file") =>
        /\ ret.out.kind = "return"
        /\ LastWins(C7_PairsOf(C7_UpToBad(C7_Items(data, TRUE))), ret.out.val)

\* C7 witness: the HAR document whose one entry carries the header
\* Set-Cookie: SESSID=abc123; Path=/; HttpOnly has been extracted.
C7_Witness ==
    /\ Extracted
    /\ data = Obj1(K_log, Obj1(K_entries, JArr(<<Obj1(K_response, Resp1)>>)))
    /\ ret.out = Return(Obj1(JStr(<<"S", "E", "S", "S", "I", "D">>),
                             JStr(<<"a", "b", "c", "1", "2", "3">>)))

----------------------------------------------------------------------------
(* C8, C9: nested structures                                               *)

RECURSIVE C8_Discoveries(_)
\* the objects bound to a key "cookies" anywhere in x, inside arrays too: the
\* one of an object first, then those inside its values in document order
C8_Discoveries(x) ==
    IF x.t = "obj"
    THEN (IF Field(x, K_cookies, None).t = "obj" THEN <<Field(x, K_cookies, None)>> ELSE <<>>)
         \o Flatten([i \in 1..Len(x.v) |-> C8_Discoveries(x.v[i][2])])
    ELSE IF x.t = "arr"
    THEN Flatten([i \in 1..Len(x.v) |-> C8_Discoveries(x.v[i])])
    ELSE <<>>

\* the entries of the discovered objects, in document order
C8_Pairs(d) == Flatten([i \in 1..Len(C8_Discoveries(d)) |-> C8_Discoveries(d)[i].v])

\* C8: for a nested-format document, extraction walks every object reachable
\* from the root, objects inside arrays and at any depth included, and merges
\* the entries of every object bound to a key "cookies" in document order, a
\* later discovery overwriting an earlier one.
C8_Claim ==
    (Extracted /\ TableFormat(data) = "nested_cookies") =>
        /\ ret.out.kind = "return"
        /\ LastWins(C8_Pairs(data), ret.out.val)

\* C9: neither recursive walk visits an object or array nested deeper than
\* the fixed maximum depth.
C9_Claim == Extracted => ret.deep <= MaxSearchDepth

----------------------------------------------------------------------------
(* C10: documents of unknown format                                        *)

RECURSIVE C10_Occurrences(_, _)
\* every <<key, value, depth>> of every object in x, in document order; depth
\* counts the objects and arrays around the object holding the key
C10_Occurrences(x, depth) ==
    IF x.t = "obj"
    THEN Flatten([i \in 1..Len(x.v) |->
             << <<x.v[i][1], x.v[i][2], depth>> >> \o C10_Occurrences(x.v[i][2], depth + 1)])
    ELSE IF x.t = "arr"
    THEN Flatten([i \in 1..Len(x.v) |-> C10_Occurrences(x.v[i], depth + 1)])
    ELSE <<>>

\* the key contains session, token, auth or cookie, whatever the case
C10_KeywordKey(key) ==
    \E kw \in Keywords : \E off \in 0..(Len(key.v) - Len(kw)) :
        \A j \in 1..Len(kw) : LowerChar(key.v[off + j]) = kw[j]

\* a string of more than 10 characters under a keyword key, at most 5 levels down
C10_Qualifies(o) ==
    /\ o[2].t = "str" /\ Len(o[2].v) >= 11
    /\ C10_KeywordKey(o[1])
    /\ o[3] <= 5

C10_Pairs(d) ==
    LET q == SelectSeq(C10_Occurrences(d, 0), C10_Qualifies)
    IN [i \in 1..Len(q) |-> <<q[i][1], q[i][2]>>]

\* C10: for a document of unknown format, extraction returns exactly the
\* entries key -> value where value is a string longer than 10 characters, the
\* key contains session, token, auth or cookie case-insensitively, and the
\* entry sits at most 5 levels down (the value found last when a key occurs
\* more than once); shorter strings, other keys and deeper entries are not
\* returned.
C10_Theorem ==
    (Extracted /\ TableFormat(data) = "unknown") =>
        /\ ret.out.kind = "return"
        /\ LastWins(C10_Pairs(data), ret.out.val)

\* C10 witness: a document holding a keyword key with a long value 5 levels
\* down next to one with a 10-character value has been extracted.
C10_Witness ==
    /\ Extracted
    /\ data = WrapMix(5, Obj2(UKeys[1], V_longP, UKeys[3], V_ten))
    /\ ret.out = Return(Obj1(UKeys[1], V_longP))

----------------------------------------------------------------------------
(* C11: the round trip through save_as_cookie_manager_format               *)

\* the file at the output path is what save_as_cookie_manager_format wrote
\* for cookies C, at some clock reading, on a reader of either file with any
\* format_type
C11_Saved(C) ==
    \E now \in 1..MaxClock, path \in {InputFile, OutputFile},
       fmt \in Formats \cup {"None"} :
        output_file = JsonDump(CookieData(C, now, path, fmt))

\* a second reader has read the written file back
C11_ReadBack == file_path = OutputFile /\ pc = "loaded" /\ output_file # NoFile

\* C11: for every cookie set C (names and values strings, the empty set
\* included), the document save_as_cookie_manager_format(C) wrote, read back
\* by a reader of the output file, is classified cookie_manager by
\* detect_format and extract_cookies returns a mapping equal to C.
C11_Theorem ==
    (C11_ReadBack /\ (Detected \/ Extracted)) =>
        \A C \in CookieSets :
            C11_Saved(C) =>
                /\ format_type = "cookie_manager"
                /\ Detected => ret.fmt = "cookie_manager"
                /\ Extracted => ret.out = Return(C)

\* C11 witness: a set of two cookies, one of them with an empty value, was
\* saved, read back and extracted unchanged.
C11_Witness ==
    /\ C11_ReadBack /\ Extracted
    /\ \E C \in CookieSets :
         /\ Len(C.v) = 2 /\ C.v[2][2] = V_empty
         /\ C11_Saved(C)
         /\ ret.out = Return(C)

\* C11 witness of the empty set: nothing was saved, and nothing comes back.
C11_WitnessEmpty ==
    /\ C11_ReadBack /\ Extracted
    /\ C11_Saved(EmptyDict)
    /\ ret.out = Return(EmptyDict)

----------------------------------------------------------------------------
(* C12: extract_cookies depends on the document alone                      *)

\* what extract_cookies returns on a reader that has made no call before: the
\* result of the extractor of the format detect_format finds in document d
C12_Fresh(d) ==
    CASE DetectFormat(d) = "cookie_manager" -> ExtractCookieManagerFormat(d)
      [] DetectFormat(d) = "direct_cookies" -> ExtractDirectCookiesFormat(d)
      [] DetectFormat(d) = "browser_export" -> ExtractBrowserExportFormat(d)
      [] DetectFormat(d) = "har_file" -> ExtractHarFormat(d)
      [] DetectFormat(d) = "nested_cookies" -> ExtractNestedFormat(d)
      [] OTHER -> ExtractGenericFormat(d)

----------------------------------------------------------------------------
(* The managers and servers as a state machine                             *)

\* a process after main() constructed its server, ExtendedMCPServer() (simple
\* stays None) or SimpleMCPServer(), or after a caller constructed an
\* ExtendedJiraManager of its own; the reader is not part of this
\* specification
InitMCP ==
    /\ data = None
    /\ format_type = "None"
    /\ pc = "constructed"
    /\ ret = [op |-> "init"]
    /\ file_path = InputFile
    /\ output_file = NoFile
    /\ manager = NewManager
    /\ initialized = FALSE
    /\ simple \in {None, [manager |-> None, initialized |-> FALSE]}
    /\ out = [op |-> "idle"]

\* manager.execute_tool(tool_name, arguments), on the manager of the process
ExecuteToolCall(tool_name, arguments, env) ==
    /\ out.op = "idle"
    /\ simple = None
    /\ LET Returned(r) ==
               out' = [op |-> "execute_tool", tool_name |-> tool_name,
                       arguments |-> arguments, env |-> env, out |-> r.out,
                       http |-> r.http]
       IN Returned(ExecuteTool(manager, tool_name, arguments, env))
    /\ UNCHANGED <<manager, initialized, simple, rvars>>

\* ExtendedMCPServer.handle_request(request)
HandleRequestCall(request, config_file, cookie_file, env) ==
    /\ out.op = "idle"
    /\ simple = None
    /\ LET Returned(r) ==
               /\ manager' = r.m
               /\ initialized' = r.initialized
               /\ out' = [op |-> "handle_request", request |-> request,
                          config_file |-> config_file, cookie_file |-> cookie_file,
                          was |-> initialized, env |-> env, out |-> r.out,
                          http |-> r.http]
       IN Returned(HandleRequest(manager, initialized, request, config_file, cookie_file, env))
    /\ UNCHANGED <<simple, rvars>>

\* SimpleMCPServer.handle_request(request)
SimpleHandleRequestCall(request, config_file, cookie_file, env) ==
    /\ out.op = "idle"
    /\ simple # None
    /\ LET Returned(r) ==
               /\ simple' = [manager |-> r.m, initialized |-> r.initialized]
               /\ out' = [op |-> "handle_request", request |-> request,
                          config_file |-> config_file, cookie_file |-> cookie_file,
                          was |-> simple.initialized, env |-> env, out |-> r.out,
                          http |-> r.http]
       IN Returned(SimpleHandleRequest(simple.manager, simple.initialized, request,
                                       config_file, cookie_file, env))
    /\ UNCHANGED <<manager, initialized, rvars>>

\* ConventionBasedManager(), by a caller of its own
ConventionBasedManagerCall(config_file, cookie_file) ==
    /\ out.op = "idle"
    /\ out' = [op |-> "ConventionBasedManager", config_file |-> config_file,
               cookie_file |-> cookie_file,
               out |-> ConventionBasedManager(config_file, cookie_file)]
    /\ UNCHANGED <<manager, initialized, simple, rvars>>

\* JiraClient._load_cookies_to_session, for a configuration with this url
LoadCookiesToSessionCall(url, cookie_file) ==
    /\ out.op = "idle"
    /\ LET Returned(r) ==
               out' = [op |-> "_load_cookies_to_session", config_url |-> url,
                       cookie_file |-> cookie_file, url |-> r.url, out |-> r.out]
       IN Returned(LoadCookiesToSession(url, cookie_file))
    /\ UNCHANGED <<manager, initialized, simple, rvars>>

\* the most lines one run of a server reads before its input ends
MaxLines == 3

\* the lines a server reads from standard input: a line of white space, a
\* line that is not JSON, and lines that are the JSON text of a value (a
\* request, a request without id or method, a value that is not an object)
Lines ==
    LET Doc(x) == [t |-> "doc", v |-> x]
    IN { [t |-> "blank"], [t |-> "text"],
         Doc(Obj2(JStr(<<"i", "d">>), JNum(7), JStr(<<"m", "e", "t", "h", "o", "d">>), JStr(<<"t", "o", "o", "l", "s", "/", "l", "i", "s", "t">>))),
         Doc(Obj2(JStr(<<"i", "d">>), JNum(7), JStr(<<"m", "e", "t", "h", "o", "d">>), JStr(<<"i", "n", "i", "t", "i", "a", "l", "i", "z", "e">>))),
         Doc(Obj3(JStr(<<"i", "d">>), JNum(7), JStr(<<"m", "e", "t", "h", "o", "d">>), JStr(<<"t", "o", "o", "l", "s", "/", "c", "a", "l", "l">>), JStr(<<"p", "a", "r", "a", "m", "s">>), EmptyList)),
         Doc(Obj1(JStr(<<"m", "e", "t", "h", "o", "d">>), JStr(<<"p", "i", "n", "g">>))),
         Doc(EmptyDict), Doc(EmptyList), Doc(JNum(5)) }

\* one turn of the loop of ExtendedMCPServer.run on a line of standard input,
\* no configuration file being there: the line is stripped and skipped when
\* empty, else parsed and handled and the response printed; a line that does
\* not parse, and a request whose handling raises, are logged and nothing is
\* printed. read counts the lines not skipped, written lists those answered
RunLine(line) ==
    /\ out.op \in {"idle", "run"}
    /\ simple = None
    /\ (IF out.op = "run" THEN out.read ELSE 0) < MaxLines
    /\ LET read == IF out.op = "run" THEN out.read ELSE 0
           written == IF out.op = "run" THEN out.written ELSE <<>>
           Turn(r) ==
               /\ manager' = r.m
               /\ initialized' = r.initialized
               /\ out' = [op |-> "run", read |-> read + 1,
                          written |-> IF r.out.kind = "return"
                                      THEN Append(written, read + 1) ELSE written]
       IN IF line.t = "blank"
          THEN /\ out' = [op |-> "run", read |-> read, written |-> written]
               /\ UNCHANGED <<manager, initialized>>
          ELSE IF line.t = "text"
          THEN /\ out' = [op |-> "run", read |-> read + 1, written |-> written]
               /\ UNCHANGED <<manager, initialized>>
          ELSE Turn(HandleRequest(manager, initialized, line.v, NoFile, NoFile, <<>>))
    /\ UNCHANGED <<simple, rvars>>

\* one turn of the loop of SimpleMCPServer.run, likewise; a response is
\* printed when it is truthy, as every response of handle_request is
SimpleRunLine(line) ==
    /\ out.op \in {"idle", "run"}
    /\ simple # None
    /\ (IF out.op = "run" THEN out.read ELSE 0) < MaxLines
    /\ LET read == IF out.op = "run" THEN out.read ELSE 0
           written == IF out.op = "run" THEN out.written ELSE <<>>
           Turn(r) ==
               /\ simple' = [manager |-> r.m, initialized |-> r.initialized]
               /\ out' = [op |-> "run", read |-> read + 1,
                          written |-> IF r.out.kind = "return" /\ Truthy(r.out.val)
                                      THEN Append(written, read + 1) ELSE written]
       IN IF line.t = "blank"
          THEN /\ out' = [op |-> "run", read |-> read, written |-> written]
               /\ UNCHANGED simple
          ELSE IF line.t = "text"
          THEN /\ out' = [op |-> "run", read |-> read + 1, written |-> written]
               /\ UNCHANGED simple
          ELSE Turn(SimpleHandleRequest(simple.manager, simple.initialized, line.v,
                                        NoFile, NoFile, <<>>))
    /\ UNCHANGED <<manager, initialized, rvars>>

\* the most responses one call of get_paged is given
MaxPages == 3

\* a loop of get_paged that sends the data of the first request again, without
\* the nextPageToken of the response
GetPaged_SameData(loop, api_result) ==
    IF ~IsDict(api_result)
    THEN [loop EXCEPT !.pc = "raised", !.got = Append(@, api_result), !.out = Raise("ValueError")]
    ELSE IF ~HasKey(api_result, JStr(<<"n", "e", "x", "t", "P", "a", "g", "e", "T", "o", "k", "e", "n">>))
    THEN [loop EXCEPT !.pc = "returned", !.got = Append(@, api_result),
                      !.all_results = Append(@, api_result),
                      !.out = Return(JArr(Append(loop.all_results, api_result)))]
    ELSE [loop EXCEPT !.got = Append(@, api_result),
                      !.all_results = Append(@, api_result),
                      !.sent = Append(@, loop.sent[1])]

\* one turn of the loop of JiraClient.get_paged, the request just sent being
\* answered by api_result: a result that is no dict raises ValueError; a dict
\* is appended to all_results and either ends the loop, when it has no
\* nextPageToken, or has its token put into current_data, with which the next
\* request is sent. sent lists the data of the requests, got the responses
GetPaged(loop, api_result) ==
    IF ~IsDict(api_result)
    THEN [loop EXCEPT !.pc = "raised", !.got = Append(@, api_result), !.out = Raise("ValueError")]
    ELSE IF ~HasKey(api_result, JStr(<<"n", "e", "x", "t", "P", "a", "g", "e", "T", "o", "k", "e", "n">>))
    THEN [loop EXCEPT !.pc = "returned", !.got = Append(@, api_result),
                      !.all_results = Append(@, api_result),
                      !.out = Return(JArr(Append(loop.all_results, api_result)))]
    ELSE [loop EXCEPT !.got = Append(@, api_result),
                      !.all_results = Append(@, api_result),
                      !.sent = Append(@, DictSet(loop.sent[Len(loop.sent)], JStr(<<"n", "e", "x", "t", "P", "a", "g", "e", "T", "o", "k", "e", "n">>),
                                                 DictGet(api_result, JStr(<<"n", "e", "x", "t", "P", "a", "g", "e", "T", "o", "k", "e", "n">>), None)))]

\* JiraClient.get_paged(method, url, params_or_json) of a client whose
\* configuration is or is not for Jira Cloud, up to its first request
GetPagedCall(is_cloud, method, params_or_json) ==
    /\ out.op = "idle"
    /\ out' = IF ~is_cloud
              THEN [op |-> "get_paged", is_cloud |-> FALSE, method |-> method,
                    params_or_json |-> params_or_json, pc |-> "raised",
                    sent |-> <<>>, got |-> <<>>, all_results |-> <<>>,
                    out |-> Raise("ValueError")]
              ELSE [op |-> "get_paged", is_cloud |-> TRUE, method |-> method,
                    params_or_json |-> params_or_json, pc |-> "fetching",
                    sent |-> <<IF Truthy(params_or_json) THEN params_or_json ELSE EmptyDict>>,
                    got |-> <<>>, all_results |-> <<>>, out |-> None]
    /\ UNCHANGED <<manager, initialized, simple, rvars>>

\* the request of get_paged that is under way is answered
GetPagedFetch(api_result) ==
    /\ out.op = "get_paged" /\ out.pc = "fetching"
    /\ Len(out.got) < MaxPages
    /\ out' = GetPaged(out, api_result)
    /\ UNCHANGED <<manager, initialized, simple, rvars>>

\* the caller takes what the call came to; a call of get_paged that is in its
\* loop has come to nothing yet
Done ==
    /\ out.op # "idle"
    /\ out.op = "get_paged" => out.pc # "fetching"
    /\ out' = [op |-> "idle"]
    /\ UNCHANGED <<manager, initialized, simple, rvars>>

NextMCP ==
    \/ \E tool_name \in ToolNames, arguments \in ArgumentSets :
         \E env \in Envs(tool_name, arguments) : ExecuteToolCall(tool_name, arguments, env)
    \/ \E request \in Requests :
         LET method == IF IsDict(request) THEN DictGet(request, JStr(<<"m", "e", "t", "h", "o", "d">>), None) ELSE None
             params == IF IsDict(request) THEN DictGet(request, JStr(<<"p", "a", "r", "a", "m", "s">>), EmptyDict) ELSE None
         IN \E config_file \in (IF method = JStr(<<"i", "n", "i", "t", "i", "a", "l", "i", "z", "e">>) THEN ConfigFiles ELSE {NoFile}),
               cookie_file \in (IF method = JStr(<<"i", "n", "i", "t", "i", "a", "l", "i", "z", "e">>) THEN CookieFiles ELSE {NoFile}) :
              \/ \E env \in (IF method = JStr(<<"i", "n", "i", "t", "i", "a", "l", "i", "z", "e">>)
                             THEN Envs(S("jira_get_user_profile"), EmptyDict)
                             ELSE IF method = JStr(<<"t", "o", "o", "l", "s", "/", "c", "a", "l", "l">>) /\ IsDict(params)
                             THEN Envs(DictGet(params, K_name, None),
                                       DictGet(params, JStr(<<"a", "r", "g", "u", "m", "e", "n", "t", "s">>), EmptyDict))
                             ELSE {<<>>}) :
                   HandleRequestCall(request, config_file, cookie_file, env)
              \/ \E env \in (IF method = JStr(<<"i", "n", "i", "t", "i", "a", "l", "i", "z", "e">>) THEN [1..1 -> Outcomes] ELSE {<<>>}) :
                   SimpleHandleRequestCall(request, config_file, cookie_file, env)
    \/ \E config_file \in ConfigFiles, cookie_file \in CookieFiles :
         ConventionBasedManagerCall(config_file, cookie_file)
    \/ \E url \in {None, V_empty, JStr(<<"h", ":", "/", "/", "e", "/">>)}, cookie_file \in CookieFiles :
         LoadCookiesToSessionCall(url, cookie_file)
    \/ \E line \in Lines : RunLine(line) \/ SimpleRunLine(line)
    \/ \E is_cloud \in BOOLEAN, method \in {"get", "post"},
          params_or_json \in {None, Obj1(JStr(<<"m", "a", "x", "R", "e", "s", "u", "l", "t", "s">>), JNum(2)),
                              Obj1(JStr(<<"n", "e", "x", "t", "P", "a", "g", "e", "T", "o", "k", "e", "n">>), S("t0"))} :
         GetPagedCall(is_cloud, method, params_or_json)
    \/ \E api_result \in {Obj2(JStr(<<"v", "a", "l", "u", "e", "s">>), EmptyList, JStr(<<"n", "e", "x", "t", "P", "a", "g", "e", "T", "o", "k", "e", "n">>), S("t1")),
                          Obj1(JStr(<<"n", "e", "x", "t", "P", "a", "g", "e", "T", "o", "k", "e", "n">>), S("t2")),
                          Obj1(JStr(<<"n", "e", "x", "t", "P", "a", "g", "e", "T", "o", "k", "e", "n">>), None),
                          Obj1(JStr(<<"v", "a", "l", "u", "e", "s">>), EmptyList), EmptyList} :
         GetPagedFetch(api_result)
    \/ Done

SpecMCP == InitMCP /\ [][NextMCP]_vars

----------------------------------------------------------------------------
(* Properties of the managers and servers                                  *)

\* the call just made was handle_request for this method
Handled(method) ==
    /\ out.op = "handle_request"
    /\ IsDict(out.request)
    /\ DictGet(out.request, JStr(<<"m", "e", "t", "h", "o", "d">>), None) = method

\* the call just made was handle_request of ExtendedMCPServer for this method
HandledExtended(method) == simple = None /\ Handled(method)

----------------------------------------------------------------------------
(* C13: the base URL                                                       *)

\* the explicit configuration value of a configuration file: the value of the
\* first of the four keys that is present, None when there is none
C13_Explicit(config) ==
    IF ~IsDict(config) THEN None
    ELSE IF HasKey(config, JStr(<<"j", "i", "r", "a", "_", "u", "r", "l">>)) THEN DictGet(config, JStr(<<"j", "i", "r", "a", "_", "u", "r", "l">>), None)
    ELSE IF HasKey(config, JStr(<<"u", "r", "l">>)) THEN DictGet(config, JStr(<<"u", "r", "l">>), None)
    ELSE IF HasKey(config, JStr(<<"b", "a", "s", "e", "_", "u", "r", "l">>)) THEN DictGet(config, JStr(<<"b", "a", "s", "e", "_", "u", "r", "l">>), None)
    ELSE DictGet(config, JStr(<<"s", "e", "r", "v", "e", "r", "_", "u", "r", "l">>), None)

\* the base URL resolved from an explicit value (present: is_set) and the
\* cookie document, trailing slashes stripped; None when nothing non-empty is
\* found
C13_Resolved(is_set, explicit, cookie_file) ==
    LET Stripped(v) ==
            IF v.t = "str" /\ RStrip(v.v, "/") # <<>> THEN JStr(RStrip(v.v, "/")) ELSE None
    IN IF is_set THEN Stripped(explicit)
       ELSE IF IsDict(cookie_file) /\ HasKey(cookie_file, JStr(<<"j", "i", "r", "a", "_", "u", "r", "l">>))
       THEN Stripped(DictGet(cookie_file, JStr(<<"j", "i", "r", "a", "_", "u", "r", "l">>), None))
       ELSE None

\* what the claim requires of a bootstrap that failed or produced jira_url
C13_Holds(want, failed, jira_url) ==
    /\ want = None => failed
    /\ ~failed => jira_url = want

\* C13 (as stated): for each bootstrapper the base URL of the session produced
\* is the explicit configuration value when present, otherwise the value of
\* the cookie document, never ends with "/", and the bootstrap fails when
\* neither gives a non-empty base URL.
C13_Claim ==
    /\ HandledExtended(JStr(<<"i", "n", "i", "t", "i", "a", "l", "i", "z", "e">>)) =>
         C13_Holds(C13_Resolved(C13_Explicit(out.config_file) # None,
                                C13_Explicit(out.config_file), out.cookie_file),
                   ~initialized, manager.jira_url)
    /\ (out.op = "ConventionBasedManager") =>
         C13_Holds(C13_Resolved(C13_Explicit(out.config_file) # None,
                                C13_Explicit(out.config_file), out.cookie_file),
                   out.out.kind = "raise",
                   IF out.out.kind = "return" THEN out.out.val.jira_url ELSE None)
    /\ (out.op = "_load_cookies_to_session") =>
         C13_Holds(C13_Resolved(Truthy(out.config_url), out.config_url, out.cookie_file),
                   out.out.kind = "raise", out.url)

\* C13, ExtendedJiraManager alone: a manager initialized from a configuration
\* file has a base URL that does not end with "/"
C13_NoTrailingSlash ==
    (HandledExtended(JStr(<<"i", "n", "i", "t", "i", "a", "l", "i", "z", "e">>)) /\ initialized) =>
        /\ manager.jira_url.t = "str"
        /\ manager.jira_url.v # <<>>
        /\ manager.jira_url.v[Len(manager.jira_url.v)] # "/"

----------------------------------------------------------------------------
(* C14: the keys of the configuration file                                 *)

\* the text of a base URL, trailing slashes aside
C14_Text(url) == IF url.t = "str" THEN JStr(RStrip(url.v, "/")) ELSE url

\* C14 (as stated): the base URL a loader takes from the configuration file is
\* the value of the first of jira_url, url, base_url, server_url that is
\* present, in ExtendedJiraManager.load_config (after initialize read a
\* configuration file holding an object with a non-empty URL) and in
\* ConventionBasedManager._load_config alike.
C14_Claim ==
    /\ (/\ HandledExtended(JStr(<<"i", "n", "i", "t", "i", "a", "l", "i", "z", "e">>))
        /\ Truthy(C13_Explicit(out.config_file))) =>
         C14_Text(manager.jira_url) = C14_Text(C13_Explicit(out.config_file))
    /\ (out.op = "ConventionBasedManager" /\ out.out.kind = "return") =>
         C14_Text(out.out.val.jira_url) = C14_Text(C13_Explicit(out.config_file))

\* C14, ExtendedJiraManager alone: a configuration file that names its URL
\* under "url" is honoured
C14_ExtendedHonoursUrl ==
    (/\ HandledExtended(JStr(<<"i", "n", "i", "t", "i", "a", "l", "i", "z", "e">>))
     /\ IsDict(out.config_file)
     /\ ~HasKey(out.config_file, JStr(<<"j", "i", "r", "a", "_", "u", "r", "l">>))
     /\ HasKey(out.config_file, JStr(<<"u", "r", "l">>))) =>
        manager.jira_url = DictGet(out.config_file, JStr(<<"u", "r", "l">>), None)

\* C14, ConventionBasedManager alone: a key that is present with an empty
\* value wins over a later key
C14_FirstPresentWins ==
    (/\ out.op = "ConventionBasedManager" /\ out.out.kind = "return"
     /\ HasKey(out.config_file, JStr(<<"j", "i", "r", "a", "_", "u", "r", "l">>))) =>
        C14_Text(out.out.val.jira_url) = C14_Text(DictGet(out.config_file, JStr(<<"j", "i", "r", "a", "_", "u", "r", "l">>), None))

----------------------------------------------------------------------------
(* C15: the headers of the session                                         *)

\* the value session headers h carry for this name (names compared without
\* case), None when they carry none
C15_Header(h, name) ==
    IF \E j \in 1..Len(h.v) : StrLower(h.v[j][1].v) = StrLower(name.v)
    THEN h.v[CHOOSE j \in 1..Len(h.v) : StrLower(h.v[j][1].v) = StrLower(name.v)][2]
    ELSE None

\* the browser-mimicking default of a header name: the same User-Agent and
\* X-Atlassian-Token in every bootstrapper, one of the two Accept values, a
\* Referer that starts with the base URL
C15_IsDefault(name, x, jira_url) ==
    CASE name = JStr(<<"U", "s", "e", "r", "-", "A", "g", "e", "n", "t">>) -> x = C15_Header(BrowserHeaders(jira_url), JStr(<<"U", "s", "e", "r", "-", "A", "g", "e", "n", "t">>))
      [] name = JStr(<<"X", "-", "A", "t", "l", "a", "s", "s", "i", "a", "n", "-", "T", "o", "k", "e", "n">>) -> x = S("no-check")
      [] name = JStr(<<"A", "c", "c", "e", "p", "t">>) -> x \in {S("application/json"),
                                   C15_Header(BrowserHeaders(jira_url), JStr(<<"A", "c", "c", "e", "p", "t">>))}
      [] name = JStr(<<"R", "e", "f", "e", "r", "e", "r">>) -> /\ x.t = "str" /\ jira_url.t = "str"
                             /\ Len(x.v) > Len(jira_url.v)
                             /\ SubSeq(x.v, 1, Len(jira_url.v)) = jira_url.v

\* headers h are the defaults overlaid with the headers of the configuration
C15_Overlaid(h, config, jira_url) ==
    /\ \A i \in 1..Len(config.v) : C15_Header(h, config.v[i][1]) = config.v[i][2]
    /\ \A name \in {JStr(<<"U", "s", "e", "r", "-", "A", "g", "e", "n", "t">>), JStr(<<"X", "-", "A", "t", "l", "a", "s", "s", "i", "a", "n", "-", "T", "o", "k", "e", "n">>), JStr(<<"A", "c", "c", "e", "p", "t">>), JStr(<<"R", "e", "f", "e", "r", "e", "r">>)} :
         C15_Header(config, name) = None => C15_IsDefault(name, C15_Header(h, name), jira_url)

\* C15 (as stated): after bootstrap the session carries, for every header of
\* the configuration, the configured value, and for every default header the
\* configuration does not name, the browser-mimicking default.
C15_Claim ==
    /\ (HandledExtended(JStr(<<"i", "n", "i", "t", "i", "a", "l", "i", "z", "e">>)) /\ initialized) =>
         C15_Overlaid(manager.headers, DictGet(out.config_file, K_headers, EmptyDict),
                      manager.jira_url)
    /\ (out.op = "ConventionBasedManager" /\ out.out.kind = "return") =>
         C15_Overlaid(out.out.val.headers, DictGet(out.config_file, K_headers, EmptyDict),
                      out.out.val.jira_url)

\* C15, ExtendedJiraManager alone: a User-Agent given in the configuration is
\* the User-Agent of the initialized manager's session
C15_ConfigWins ==
    (/\ HandledExtended(JStr(<<"i", "n", "i", "t", "i", "a", "l", "i", "z", "e">>)) /\ initialized
     /\ C15_Header(DictGet(out.config_file, K_headers, EmptyDict), JStr(<<"U", "s", "e", "r", "-", "A", "g", "e", "n", "t">>)) # None) =>
        C15_Header(manager.headers, JStr(<<"U", "s", "e", "r", "-", "A", "g", "e", "n", "t">>))
          = C15_Header(DictGet(out.config_file, K_headers, EmptyDict), JStr(<<"U", "s", "e", "r", "-", "A", "g", "e", "n", "t">>))

\* C15, ConventionBasedManager alone: without a User-Agent in the
\* configuration the session carries the browser User-Agent
C15_DefaultUserAgent ==
    (/\ out.op = "ConventionBasedManager" /\ out.out.kind = "return"
     /\ C15_Header(DictGet(out.config_file, K_headers, EmptyDict), JStr(<<"U", "s", "e", "r", "-", "A", "g", "e", "n", "t">>)) = None) =>
        C15_IsDefault(JStr(<<"U", "s", "e", "r", "-", "A", "g", "e", "n", "t">>), C15_Header(out.out.val.headers, JStr(<<"U", "s", "e", "r", "-", "A", "g", "e", "n", "t">>)),
                      out.out.val.jira_url)

----------------------------------------------------------------------------
(* C16: calls of tools on a manager that is not ready                      *)

\* the call just made was execute_tool
Executed == out.op = "execute_tool"

\* the result of a call refused for want of readiness
NotInitialized == Return(Obj1(JStr(<<"e", "r", "r", "o", "r">>), S("Manager not initialized")))

\* the branches of execute_tool that compare this name
C16_Branches(tool_name) == {i \in 1..Len(Dispatch) : tool_name = S(Dispatch[i].name)}

\* C16 (as stated): execute_tool on a manager that is not ready returns
\* {"error": "Manager not initialized"} and makes no HTTP request, for every
\* tool name and argument set.
C16_Original ==
    (Executed /\ ~IsReady(manager)) => (out.out = NotInitialized /\ out.http = <<>>)

\* C16 (amended): execute_tool on a manager that is not ready returns
\* {"error": "Manager not initialized"} and makes no HTTP request, for every
\* tool name of the dispatch table and every argument set that is an object
\* (any value, for a tool whose branch reads no argument).
C16_Amended ==
    (/\ Executed /\ ~IsReady(manager)
     /\ C16_Branches(out.tool_name) # {}
     /\ \A i \in C16_Branches(out.tool_name) : Dispatch[i].args => IsDict(out.arguments)) =>
        (out.out = NotInitialized /\ out.http = <<>>)

\* C16 witness: a manager with its configuration loaded and no cookies was
\* asked to transition an issue, and refused without a request.
C16_Witness ==
    /\ Executed
    /\ manager.config_loaded /\ ~manager.cookies_loaded /\ Truthy(manager.jira_url)
    /\ out.tool_name = S("jira_transition_issue")
    /\ IsDict(out.arguments) /\ out.arguments # EmptyDict
    /\ out.out = NotInitialized
    /\ out.http = <<>>

----------------------------------------------------------------------------
(* C17: tools/call before initialize has succeeded                         *)

\* the JSON-RPC response carrying this tool result: a result member whose
\* content is one text, the JSON of the tool result, and no error member
IsToolResult(response, result) ==
    /\ IsDict(response)
    /\ ~HasKey(response, JStr(<<"e", "r", "r", "o", "r">>))
    /\ DictGet(response, JStr(<<"r", "e", "s", "u", "l", "t">>), None)
         = Obj1(JStr(<<"c", "o", "n", "t", "e", "n", "t">>), JArr(<<Obj2(JStr(<<"t", "y", "p", "e">>), S("text"), JStr(<<"t", "e", "x", "t">>), JStr(JsonDumps(result, 0)))>>))

\* C17 (as stated): a tools/call handled while the server is not initialized
\* is answered with the tool result {"error": "Manager not initialized"} and
\* makes no HTTP request, in ExtendedMCPServer and SimpleMCPServer.
C17_Claim ==
    (Handled(JStr(<<"t", "o", "o", "l", "s", "/", "c", "a", "l", "l">>)) /\ ~out.was) =>
        /\ out.out.kind = "return"
        /\ IsToolResult(out.out.val, Obj1(JStr(<<"e", "r", "r", "o", "r">>), S("Manager not initialized")))
        /\ out.http = <<>>

\* C17, the parts the servers keep: a tools/call on a server that is not
\* initialized makes no HTTP request and leaves the server not initialized,
\* and the answer is the JSON-RPC error -1 "Server not initialized".
C17_Refused ==
    (Handled(JStr(<<"t", "o", "o", "l", "s", "/", "c", "a", "l", "l">>)) /\ ~out.was) =>
        /\ out.http = <<>>
        /\ IF simple = None THEN ~initialized ELSE ~simple.initialized
        /\ out.out.kind = "return"
        /\ DictGet(out.out.val, JStr(<<"e", "r", "r", "o", "r">>), None)
             = Obj2(JStr(<<"c", "o", "d", "e">>), JNum(0 - 1), JStr(<<"m", "e", "s", "s", "a", "g", "e">>), S("Server not initialized"))

\* a tools/call has been refused after an initialize that failed with the
\* manager itself ready (configuration and cookies loaded, connection test
\* failed)
C17_RefusedReady ==
    /\ HandledExtended(JStr(<<"t", "o", "o", "l", "s", "/", "c", "a", "l", "l">>)) /\ ~out.was
    /\ IsReady(manager)

----------------------------------------------------------------------------
(* C18: the methods handle_request answers                                 *)

\* the methods of the protocol
Supported == {JStr(<<"i", "n", "i", "t", "i", "a", "l", "i", "z", "e">>), JStr(<<"t", "o", "o", "l", "s", "/", "l", "i", "s", "t">>), JStr(<<"t", "o", "o", "l", "s", "/", "c", "a", "l", "l">>), JStr(<<"r", "e", "s", "o", "u", "r", "c", "e", "s", "/", "l", "i", "s", "t">>), JStr(<<"p", "r", "o", "m", "p", "t", "s", "/", "l", "i", "s", "t">>)}

\* the response is the JSON-RPC error "method not found"
IsMethodNotFound(response) ==
    /\ IsDict(response)
    /\ IsDict(DictGet(response, JStr(<<"e", "r", "r", "o", "r">>), None))
    /\ DictGet(DictGet(response, JStr(<<"e", "r", "r", "o", "r">>), None), JStr(<<"c", "o", "d", "e">>), None) = JNum(0 - 32601)

\* C18 (as stated): handle_request of either server answers -32601 to every
\* method other than the five supported ones (a missing method included) and
\* to none of the five.
C18_Claim ==
    (out.op = "handle_request" /\ IsDict(out.request)) =>
        (out.out.kind = "return" /\ IsMethodNotFound(out.out.val))
             <=> DictGet(out.request, JStr(<<"m", "e", "t", "h", "o", "d">>), None) \notin Supported

\* C18, ExtendedMCPServer alone
C18_Extended ==
    (simple = None /\ out.op = "handle_request" /\ IsDict(out.request)) =>
        (out.out.kind = "return" /\ IsMethodNotFound(out.out.val))
             <=> DictGet(out.request, JStr(<<"m", "e", "t", "h", "o", "d">>), None) \notin Supported

\* ExtendedMCPServer has answered resources/list with its (empty) list
C18_ExtendedAnswered ==
    /\ HandledExtended(JStr(<<"r", "e", "s", "o", "u", "r", "c", "e", "s", "/", "l", "i", "s", "t">>))
    /\ DictGet(out.out.val, JStr(<<"r", "e", "s", "u", "l", "t">>), None) = Obj1(JStr(<<"r", "e", "s", "o", "u", "r", "c", "e", "s">>), EmptyList)

----------------------------------------------------------------------------
(* C19: transport failures of a tool call                                  *)

\* the outcome of a request is a failure of the transport: an exception of
\* the HTTP library, or a response whose status is not 2xx
TransportFailure(o) == o.kind = "exc" \/ o.status < 200 \/ o.status >= 300

\* the call just made has made requests, and every one of them failed
AllFailed == 
    /\ out.http # <<>>
    /\ \A i \in 1..Len(out.http) : TransportFailure(out.env[i])

\* the text is what json.dumps(result, indent=2) writes for a result that is a
\* dict of one item, "error", whose value is a string
IsErrorText(text) ==
    LET head == <<"{", "\n", " ", " ", "\"", "e", "r", "r", "o", "r", "\"", ":", " ", "\"">>
        tail == <<"\"", "\n", "}">>
    IN /\ Len(text) >= Len(head) + Len(tail)
       /\ SubSeq(text, 1, Len(head)) = head
       /\ SubSeq(text, Len(text) - Len(tail) + 1, Len(text)) = tail
       /\ \A k \in (Len(head) + 1)..(Len(text) - Len(tail)) : text[k] # "\n"

\* the response carries a tool result that is {"error": <message>}, and no
\* top-level error
IsErrorResult(response) ==
    LET content == DictGet(DictGet(response, JStr(<<"r", "e", "s", "u", "l", "t">>), EmptyDict), JStr(<<"c", "o", "n", "t", "e", "n", "t">>), EmptyList)
    IN /\ IsDict(response)
       /\ ~HasKey(response, JStr(<<"e", "r", "r", "o", "r">>))
       /\ HasKey(response, JStr(<<"r", "e", "s", "u", "l", "t">>))
       /\ content.t = "arr" /\ Len(content.v) = 1
       /\ DictGet(content.v[1], JStr(<<"t", "y", "p", "e">>), None) = S("text")
       /\ IsErrorText(DictGet(content.v[1], JStr(<<"t", "e", "x", "t">>), V_empty).v)

\* C19 (as stated): on an initialized server a tools/call whose requests all
\* failed at the transport level is answered with the tool result
\* {"error": <message>} and no top-level error, and execute_tool does not
\* raise for such a call.
C19_Claim ==
    /\ (Handled(JStr(<<"t", "o", "o", "l", "s", "/", "c", "a", "l", "l">>)) /\ out.was /\ AllFailed) =>
           /\ out.out.kind = "return"
           /\ IsErrorResult(out.out.val)
    /\ (out.op = "execute_tool" /\ AllFailed) => out.out.kind = "return"

\* C19 for the requests that raise in the code (an exception, or a status
\* from 400 to 599); the tools that make a request for each item of a list
\* do not satisfy it
C19_Raising ==
    (/\ Handled(JStr(<<"t", "o", "o", "l", "s", "/", "c", "a", "l", "l">>)) /\ out.was /\ AllFailed
     /\ \A i \in 1..Len(out.http) :
          out.env[i].kind = "exc" \/ out.env[i].status >= 400) =>
        /\ out.out.kind = "return"
        /\ IsErrorResult(out.out.val)

\* a failure of the transport never leaves execute_tool as an exception,
\* nor the server as a top-level error
C19_NoException ==
    /\ (Handled(JStr(<<"t", "o", "o", "l", "s", "/", "c", "a", "l", "l">>)) /\ out.was /\ AllFailed) =>
           /\ out.out.kind = "return"
           /\ ~HasKey(out.out.val, JStr(<<"e", "r", "r", "o", "r">>))
    /\ (out.op = "execute_tool" /\ AllFailed) => out.out.kind = "return"

----------------------------------------------------------------------------
(* C20: a tool name that is not in the dispatch table                      *)

\* the tool name is none of the names execute_tool dispatches on
Unknown(tool_name) == \A i \in 1..Len(Dispatch) : tool_name # S(Dispatch[i].name)

\* the characters of "Tool not implemented: <name>"
NotImplementedText(tool_name) ==
    <<"T", "o", "o", "l", " ", "n", "o", "t", " ", "i", "m", "p", "l", "e", "m", "e", "n", "t", "e", "d", ":", " ">>
    \o (IF tool_name.t = "str" THEN tool_name.v ELSE <<"N", "o", "n", "e">>)

\* C20: execute_tool called with a name that is not in the dispatch table
\* returns {"error": "Tool not implemented: <name>"} and makes no HTTP
\* request, on a manager that is ready and on one that is not.
C20_Theorem ==
    (out.op = "execute_tool" /\ Unknown(out.tool_name)) =>
        /\ out.out = Return(Obj1(JStr(<<"e", "r", "r", "o", "r">>), JStr(NotImplementedText(out.tool_name))))
        /\ out.http = <<>>

\* execute_tool has answered for an unknown name on a manager that is not
\* ready, with arguments that are not a dict
C20_Witness ==
    /\ out.op = "execute_tool"
    /\ out.tool_name = S("jira_no_such_tool")
    /\ ~IsReady(manager)
    /\ out.arguments = EmptyList
    /\ out.out.kind = "return"

\* execute_tool has answered for an unknown name on a manager that is ready
C20_WitnessReady ==
    /\ out.op = "execute_tool"
    /\ out.tool_name = S("jira_no_such_tool")
    /\ IsReady(manager)
    /\ out.out.kind = "return"

----------------------------------------------------------------------------
(* C21: the tool table and the dispatch of execute_tool                    *)

\* the tools of the original server, as verify_complete_implementation
\* lists them (without the prefix jira_)
original_jira_tools ==
    << "add_comment", "add_worklog", "batch_create_issues", "batch_create_versions",
       "batch_get_changelogs", "create_issue", "create_issue_link",
       "create_remote_issue_link", "create_sprint", "create_version", "delete_issue",
       "download_attachments", "get_agile_boards", "get_all_projects",
       "get_board_issues", "get_issue", "get_link_types", "get_project_issues",
       "get_project_versions", "get_sprint_issues", "get_sprints_from_board",
       "get_transitions", "get_user_profile", "get_worklog", "link_to_epic",
       "remove_issue_link", "search", "search_fields", "transition_issue",
       "update_issue", "update_sprint" >>

\* the names a tool of the original server may go by in the table: its own,
\* and its own with each renaming applied (a renaming only matches the whole
\* of a name of the list)
variations(tool) ==
    LET renamed == { <<"get_agile_boards", "get_boards">>,
                     <<"get_all_projects", "get_projects">>,
                     <<"download_attachments", "download_attachment">>,
                     <<"get_link_types", "get_issue_link_types">>,
                     <<"get_sprints_from_board", "get_all_sprints_from_board">> }
    IN {tool} \cup {r[2] : r \in {r \in renamed : r[1] = tool}}

\* the table and the dispatch agree: the names of the table are pairwise
\* distinct, each has a branch in execute_tool, and every tool of the
\* original server has a counterpart in the table
C21_Tables ==
    /\ \A i, j \in 1..Len(Tools) : Tools[i] = Tools[j] => i = j
    /\ \A i \in 1..Len(Tools) : \E j \in 1..Len(Dispatch) : Tools[i] = Dispatch[j].name
    /\ \A k \in 1..Len(original_jira_tools) :
         \E var \in variations(original_jira_tools[k]) :
            \E i \in 1..Len(Tools) : Tools[i] = "jira_" \o var

\* the name is one the table advertises
Advertised(tool_name) == \E i \in 1..Len(Tools) : tool_name = S(Tools[i])

\* C21: the tool table and the dispatch table agree; execute_tool(name, {})
\* for a name of the table never answers "Tool not implemented", and on a
\* manager that is not ready answers "Manager not initialized" without a
\* request.
C21_Theorem ==
    /\ C21_Tables
    /\ (Executed /\ Advertised(out.tool_name) /\ out.arguments = EmptyDict) =>
          /\ out.out.kind = "return"
          /\ out.out.val # Obj1(JStr(<<"e", "r", "r", "o", "r">>), JStr(NotImplementedText(out.tool_name)))
          /\ ~IsReady(manager) => (out.out = NotInitialized /\ out.http = <<>>)

\* execute_tool(name, {}) has answered on the manager as constructed, for the
\* last tool of the table
C21_Witness ==
    /\ Executed /\ out.tool_name = S(Tools[Len(Tools)]) /\ out.arguments = EmptyDict
    /\ manager = NewManager
    /\ out.out = NotInitialized

\* execute_tool(name, {}) has reached the handler of a tool of the table on a
\* ready manager, and the handler has made its request
C21_WitnessReady ==
    /\ Executed /\ Advertised(out.tool_name) /\ out.arguments = EmptyDict
    /\ IsReady(manager) /\ out.http # <<>>

----------------------------------------------------------------------------
(* C22: initialize and tools/list in every state of ExtendedMCPServer      *)

\* the result member of the response of the call just made, None without one
Result == IF out.out.kind = "return" /\ IsDict(out.out.val)
          THEN DictGet(out.out.val, JStr(<<"r", "e", "s", "u", "l", "t">>), None) ELSE None

\* the response of the call just made is a result envelope
IsResultEnvelope ==
    /\ out.out.kind = "return"
    /\ IsDict(out.out.val)
    /\ HasKey(out.out.val, JStr(<<"r", "e", "s", "u", "l", "t">>))
    /\ ~HasKey(out.out.val, JStr(<<"e", "r", "r", "o", "r">>))

\* C22: ExtendedMCPServer answers initialize and tools/list with a result
\* envelope whatever its state: the result of initialize has capabilities
\* with "tools", the result of tools/list has the whole tool table.
C22_Theorem ==
    /\ HandledExtended(JStr(<<"i", "n", "i", "t", "i", "a", "l", "i", "z", "e">>)) =>
          /\ IsResultEnvelope
          /\ IsDict(Result)
          /\ IsDict(DictGet(Result, JStr(<<"c", "a", "p", "a", "b", "i", "l", "i", "t", "i", "e", "s">>), None))
          /\ HasKey(DictGet(Result, JStr(<<"c", "a", "p", "a", "b", "i", "l", "i", "t", "i", "e", "s">>), None), JStr(<<"t", "o", "o", "l", "s">>))
    /\ HandledExtended(JStr(<<"t", "o", "o", "l", "s", "/", "l", "i", "s", "t">>)) =>
          /\ IsResultEnvelope
          /\ Result = Obj1(JStr(<<"t", "o", "o", "l", "s">>), JArr([i \in 1..Len(Tools) |-> Obj1(K_name, S(Tools[i]))]))
          /\ Len(Tools) > 0

\* tools/list has been answered by a server whose manager is as constructed:
\* no initialize has got as far as reading a file
C22_Witness ==
    /\ HandledExtended(JStr(<<"t", "o", "o", "l", "s", "/", "l", "i", "s", "t">>))
    /\ ~out.was /\ ~initialized /\ manager = NewManager
    /\ Len(DictGet(Result, JStr(<<"t", "o", "o", "l", "s">>), EmptyList).v) = 51

\* initialize has been answered although the bootstrap failed
C22_WitnessFailed ==
    /\ HandledExtended(JStr(<<"i", "n", "i", "t", "i", "a", "l", "i", "z", "e">>))
    /\ ~initialized
    /\ IsResultEnvelope

----------------------------------------------------------------------------
(* C23: one response for each request line                                 *)

\* C23 (as stated): while a server runs, every line read that is not empty
\* has been answered by one response, in the order read: the k-th response is
\* that of the k-th line.
C23_Claim ==
    out.op = "run" => out.written = [k \in 1..out.read |-> k]

\* while a server runs, no line is answered twice or out of turn: the lines
\* answered are among those read, in the order read
C23_AtMostOne ==
    out.op = "run" =>
        /\ \A k \in 1..Len(out.written) : out.written[k] \in 1..out.read
        /\ \A k \in 1..(Len(out.written) - 1) : out.written[k] < out.written[k + 1]

\* a server has read two lines and answered the second only
C23_Skipped == out.op = "run" /\ out.read = 2 /\ out.written = <<2>>

----------------------------------------------------------------------------
(* C24: bootstrapping with an empty set of cookies                         *)

\* the cookie document whose cookie mapping is empty
NoCookies == Obj1(K_cookies, EmptyDict)

\* the configuration file sets a base URL, so that load_config succeeds
HasUrl(config_file) ==
    /\ IsDict(config_file)
    /\ Truthy(DictGet(config_file, JStr(<<"j", "i", "r", "a", "_", "u", "r", "l">>), None))
    /\ IsDict(DictGet(config_file, K_headers, EmptyDict))

\* C24 (as stated): bootstrapping from a cookie document whose mapping is empty
\* succeeds and applies the headers: after load_config and load_cookies of
\* ExtendedJiraManager the cookies count as loaded, the browser-like headers
\* are on the session and, the base URL being there, the manager is ready for
\* a tool call; ConventionBasedManager is constructed with its headers.
C24_Claim ==
    /\ (HandledExtended(JStr(<<"i", "n", "i", "t", "i", "a", "l", "i", "z", "e">>)) /\ HasUrl(out.config_file)
        /\ out.cookie_file = NoCookies) =>
           /\ manager.cookies_loaded
           /\ C15_Header(manager.headers, JStr(<<"X", "-", "R", "e", "q", "u", "e", "s", "t", "e", "d", "-", "W", "i", "t", "h">>)) = S("XMLHttpRequest")
           /\ IsReady(manager)
    /\ (out.op = "ConventionBasedManager" /\ HasUrl(out.config_file)
        /\ out.cookie_file = NoCookies) =>
           /\ out.out.kind = "return"
           /\ C15_Header(out.out.val.headers, JStr(<<"X", "-", "A", "t", "l", "a", "s", "s", "i", "a", "n", "-", "T", "o", "k", "e", "n">>)) = S("no-check")

\* ConventionBasedManager alone: an empty cookie mapping gives a session
\* without cookies and with the default headers
C24_Convention ==
    (out.op = "ConventionBasedManager" /\ HasUrl(out.config_file)
     /\ out.cookie_file = NoCookies) =>
        /\ out.out.kind = "return"
        /\ out.out.val.cookies = EmptyDict
        /\ C15_Header(out.out.val.headers, JStr(<<"X", "-", "A", "t", "l", "a", "s", "s", "i", "a", "n", "-", "T", "o", "k", "e", "n">>)) = S("no-check")

\* ExtendedMCPServer: an initialize that finds an empty cookie mapping leaves
\* the server not initialized, and makes no request
C24_Rejected ==
    (HandledExtended(JStr(<<"i", "n", "i", "t", "i", "a", "l", "i", "z", "e">>)) /\ out.cookie_file = NoCookies) =>
        /\ ~initialized
        /\ out.http = <<>>

\* the first initialize of a server has found a base URL and an empty cookie
\* mapping: the manager has its URL and is not ready
C24_RejectedFirst ==
    /\ HandledExtended(JStr(<<"i", "n", "i", "t", "i", "a", "l", "i", "z", "e">>)) /\ HasUrl(out.config_file)
    /\ out.cookie_file = NoCookies
    /\ manager.config_loaded /\ ~manager.cookies_loaded /\ ~IsReady(manager)

----------------------------------------------------------------------------
(* C25: the session context is only written by a reload                   *)

\* the step is a call of execute_tool, or of handle_request for a request
\* that is an object and whose method is not initialize
ReadOnlyCall ==
    \/ out'.op = "execute_tool"
    \/ /\ out'.op = "handle_request"
       /\ IsDict(out'.request)
       /\ DictGet(out'.request, JStr(<<"m", "e", "t", "h", "o", "d">>), None) # JStr(<<"i", "n", "i", "t", "i", "a", "l", "i", "z", "e">>)

\* C25: a tools/call, tools/list, resources/list or prompts/list request, a
\* request of any other method but initialize, and a call of execute_tool,
\* whatever it comes to, leave the base URL, the readiness flags, the cookies
\* set and the session headers of the manager as they were, and the flag of
\* the server with them.
C25_Theorem ==
    [][ReadOnlyCall =>
          /\ manager' = manager
          /\ initialized' = initialized
          /\ simple' = simple]_vars

\* a tool call on an initialized server has made its request and the manager
\* is ready with its cookies
C25_Witness ==
    /\ HandledExtended(JStr(<<"t", "o", "o", "l", "s", "/", "c", "a", "l", "l">>)) /\ out.was
    /\ out.http # <<>>
    /\ IsReady(manager) /\ manager.cookies # EmptyDict

----------------------------------------------------------------------------
(* C26: the requests of a tool call                                        *)

\* the manager has its configuration, its cookies and a base URL
Ready == manager.config_loaded /\ manager.cookies_loaded /\ Truthy(manager.jira_url)

\* the branch of execute_tool for the tool just called
Called == Dispatch[CHOOSE i \in 1..Len(Dispatch) : out.tool_name = S(Dispatch[i].name)]

\* the tools that call another tool or make a second request, and the tools
\* that walk a list
Composite == {S("jira_transition_issue"), S("jira_link_to_epic"), S("jira_clone_issue")}
Batch == {S("jira_batch_create_issues"), S("jira_batch_create_versions"),
          S("jira_batch_get_changelogs")}

\* execute_tool has been called on a ready manager for a tool of the table,
\* with an object as arguments
ExecutedReady ==
    /\ Executed /\ Ready
    /\ Advertised(out.tool_name) /\ IsDict(out.arguments)

\* C26 (as stated): on a ready manager one call of execute_tool makes exactly
\* one HTTP request, for every tool of the table.
C26_Original == ExecutedReady => Len(out.http) = 1

\* C26 (amended): on a ready manager one call of execute_tool for a tool other
\* than jira_transition_issue, jira_link_to_epic, jira_clone_issue and the
\* jira_batch_* tools makes exactly one request, to the endpoint template of
\* the tool; the three composite tools make one or two requests, the batch
\* tools at most one for each item of their list (jira_batch_create_issues at
\* most one).
C26_Amended ==
    ExecutedReady =>
        /\ out.tool_name \notin (Composite \cup Batch) =>
              /\ Len(out.http) = 1
              /\ out.http[1].path = Called.path \/ Called.kind = "search"
              /\ Called.kind = "search" => out.http[1].path = "/rest/api/2/search"
        /\ out.tool_name \in Composite => Len(out.http) \in {1, 2}
        /\ out.tool_name = S("jira_batch_create_issues") => Len(out.http) <= 1
        /\ out.tool_name \in {S("jira_batch_create_versions"), S("jira_batch_get_changelogs")} =>
              Len(out.http) <= Len(out.env)

\* jira_transition_issue has made its two requests: the transitions of the
\* issue, then the transition
C26_Witness ==
    /\ ExecutedReady
    /\ out.tool_name = S("jira_transition_issue")
    /\ Len(out.http) = 2
    /\ out.http[1].method = "GET" /\ out.http[2].method = "POST"

\* a tool with one endpoint has made its one request
C26_WitnessOne ==
    /\ ExecutedReady
    /\ out.tool_name = S("jira_get_issue")
    /\ out.http = <<[method |-> "GET", path |-> "/rest/api/2/issue/{issue_key}"]>>

----------------------------------------------------------------------------
(* C27: the pages of get_paged                                             *)

\* the response lacks nextPageToken
NoToken(api_result) == ~IsDict(api_result) \/ ~HasKey(api_result, JStr(<<"n", "e", "x", "t", "P", "a", "g", "e", "T", "o", "k", "e", "n">>))

C27_WitnessRaised ==
    /\ out.op = "get_paged" /\ out.pc = "raised"
    /\ Len(out.got) = 2

----------------------------------------------------------------------------
(* C28: the flag of ExtendedMCPServer and the readiness of its manager     *)

\* what initialize has to find to succeed: a configuration with a base URL
\* and headers that can be applied, a cookie document with cookies, and an
\* answer to the connection test that is a profile
Succeeds(config_file, cookie_file, o) ==
    /\ IsDict(config_file)
    /\ Truthy(DictGet(config_file, JStr(<<"j", "i", "r", "a", "_", "u", "r", "l">>), None))
    /\ HasKey(config_file, K_headers) =>
          HeadersUpdate(SessionHeaders, DictGet(config_file, K_headers, None), 1).ok
    /\ IsDict(cookie_file)
    /\ IsDict(DictGet(cookie_file, K_cookies, EmptyDict))
    /\ Truthy(DictGet(cookie_file, K_cookies, EmptyDict))
    /\ o.kind = "resp"
    /\ ~(o.status >= 400 /\ o.status < 600)
    /\ o.body.t = "obj"
    /\ ~HasKey(o.body, JStr(<<"e", "r", "r", "o", "r">>))

\* C28: in ExtendedMCPServer, over any sequence of requests, the flag
\* initialized is the outcome of the latest initialize, the manager is ready
\* whenever the flag is set, and no tools/call that gets past the flag is
\* answered with the manager's "Manager not initialized".
C28_Theorem ==
    [][simple' = None =>
          /\ initialized' => IsReady(manager')
          /\ Handled(JStr(<<"i", "n", "i", "t", "i", "a", "l", "i", "z", "e">>))' =>
                initialized' = Succeeds(out'.config_file, out'.cookie_file, out'.env[1])
          /\ (Handled(JStr(<<"t", "o", "o", "l", "s", "/", "c", "a", "l", "l">>))' /\ out'.was) =>
                ~(/\ out'.out.kind = "return"
                  /\ IsToolResult(out'.out.val, Obj1(JStr(<<"e", "r", "r", "o", "r">>), S("Manager not initialized"))))]_vars

\* an initialize has failed on a server that was initialized: the flag is
\* down although the manager is still ready
C28_Witness ==
    /\ HandledExtended(JStr(<<"i", "n", "i", "t", "i", "a", "l", "i", "z", "e">>))
    /\ out.was /\ ~initialized
    /\ IsReady(manager)

\* a tool call has got past the flag and made its request
C28_WitnessCall ==
    /\ HandledExtended(JStr(<<"t", "o", "o", "l", "s", "/", "c", "a", "l", "l">>)) /\ out.was /\ out.http # <<>>

----------------------------------------------------------------------------
(* C29: a load step that fails                                             *)

\* load_config returns False for this file: it cannot be read as a JSON
\* object, or it has no jira_url
ConfigFails(config_file) ==
    \/ ~IsDict(config_file)
    \/ ~Truthy(DictGet(config_file, JStr(<<"j", "i", "r", "a", "_", "u", "r", "l">>), None))

\* load_cookies returns False for this file: it cannot be read as a JSON
\* object, or it has no cookies
CookiesFail(cookie_file) ==
    \/ ~IsDict(cookie_file)
    \/ ~Truthy(DictGet(cookie_file, K_cookies, EmptyDict))
    \/ ~IsDict(DictGet(cookie_file, K_cookies, EmptyDict))

\* the step is an initialize of ExtendedMCPServer
Initializes == simple = None /\ Handled(JStr(<<"i", "n", "i", "t", "i", "a", "l", "i", "z", "e">>))'

\* C29 (as stated): a load_config that returns False leaves jira_url,
\* config_loaded and the session headers as they were, a load_cookies that
\* returns False leaves the cookies, the headers and cookies_loaded as they
\* were, and a manager that was ready is still ready.
C29_Claim ==
    [][/\ (Initializes /\ ConfigFails(out'.config_file)) =>
            /\ manager' = manager
            /\ IsReady(manager) => IsReady(manager')
       /\ (Initializes /\ ~ConfigFails(out'.config_file) /\ CookiesFail(out'.cookie_file)) =>
            /\ manager'.cookies = manager.cookies
            /\ manager'.cookies_loaded = manager.cookies_loaded
            /\ manager'.headers = LoadConfig(manager, out'.config_file).m.headers]_vars

\* the part of C29 about load_cookies, and about a configuration file that
\* cannot be read as a JSON object
C29_Cookies ==
    [][/\ (Initializes /\ ~IsDict(out'.config_file)) => manager' = manager
       /\ (Initializes /\ ~ConfigFails(out'.config_file) /\ CookiesFail(out'.cookie_file)) =>
            /\ manager'.cookies = manager.cookies
            /\ manager'.cookies_loaded = manager.cookies_loaded
            /\ manager'.headers = LoadConfig(manager, out'.config_file).m.headers]_vars

\* a configuration file without jira_url has been loaded on a manager that
\* had its configuration and cookies: the manager has lost its base URL and
\* is not ready
C29_Lost ==
    /\ HandledExtended(JStr(<<"i", "n", "i", "t", "i", "a", "l", "i", "z", "e">>))
    /\ IsDict(out.config_file) /\ ConfigFails(out.config_file)
    /\ manager.config_loaded /\ manager.cookies_loaded
    /\ manager.jira_url = None /\ ~IsReady(manager)

----------------------------------------------------------------------------
(* C30: the accounting of the batch tools                                  *)

\* the list a batch tool walks, in the arguments of the call just made
Items ==
    DictGet(out.arguments,
            IF out.tool_name = S("jira_batch_create_versions") THEN JStr(<<"v", "e", "r", "s", "i", "o", "n", "s">>) ELSE JStr(<<"i", "s", "s", "u", "e", "_", "k", "e", "y", "s">>),
            EmptyList)

\* jira_batch_create_versions or jira_batch_get_changelogs has been called on
\* a ready manager with a list to walk
BatchWalked ==
    /\ ExecutedReady
    /\ out.tool_name \in {S("jira_batch_create_versions"), S("jira_batch_get_changelogs")}
    /\ Items.t = "arr"

\* the number of items the result reports as done, and as failed
Successes ==
    Len(DictGet(out.out.val,
                IF out.tool_name = S("jira_batch_create_versions") THEN JStr(<<"c", "r", "e", "a", "t", "e", "d">>) ELSE JStr(<<"c", "h", "a", "n", "g", "e", "l", "o", "g", "s">>),
                EmptyList).v)
Failures == Len(DictGet(out.out.val, JStr(<<"e", "r", "r", "o", "r", "s">>), EmptyList).v)

\* every item has had its request and is counted once, as done or as failed
Accounted ==
    /\ out.out.kind = "return"
    /\ IsDict(out.out.val) /\ HasKey(out.out.val, JStr(<<"e", "r", "r", "o", "r", "s">>))
    /\ Len(out.http) = Len(Items.v)
    /\ Successes + Failures = Len(Items.v)

\* C30 (as stated): the batch tools take the items of their list one by one,
\* no failure ends the walk, and successes plus errors is the number of
\* items, for every list.
C30_Claim == BatchWalked => Accounted

\* C30 for a list of versions that are all objects, and for a list of issue
\* keys without repetition
C30_Distinct ==
    (/\ BatchWalked
     /\ \A i \in 1..Len(Items.v) : out.tool_name = S("jira_batch_create_versions") => IsDict(Items.v[i])
     /\ \A i, j \in 1..Len(Items.v) :
           (out.tool_name = S("jira_batch_get_changelogs") /\ Items.v[i] = Items.v[j]) => i = j)
        => Accounted

\* the changelogs of a list that names one issue twice have both been
\* fetched, and the result counts one
C30_Repeated ==
    /\ BatchWalked /\ out.tool_name = S("jira_batch_get_changelogs")
    /\ Len(Items.v) = 2 /\ Items.v[1] = Items.v[2]
    /\ Len(out.http) = 2
    /\ Successes = 1 /\ Failures = 0

\* a version that is no object has ended the walk after the first version was
\* created: the result is an error
C30_Aborted ==
    /\ BatchWalked /\ out.tool_name = S("jira_batch_create_versions")
    /\ Len(Items.v) = 2 /\ Len(out.http) = 1
    /\ HasKey(out.out.val, JStr(<<"e", "r", "r", "o", "r">>))

====
